---- MODULE Spec2Model ----
(***************************************************************************)
(* Staging-and-matching engine of the image sorter: the temporal matcher,  *)
(* the staging ledger (table staging_area), the commit engine, the undo    *)
(* stack and the folder-tag snapshot (table folder_tags), as implemented   *)
(* in engine.py (SorterEngine) and gallery_app.py (the NiceGUI front end). *)
(*                                                                         *)
(* Strings are modelled by their structure.  A directory is the sequence   *)
(* of its path components.  A file name "<cat>_<idx:03d>[_<s>]*<ext>" is   *)
(* the record [cat, idx, sfx, ext]; two such records are equal exactly     *)
(* when the rendered strings are equal, for the categories used here; the  *)
(* characters are spelled out where the code parses them.  A path is      *)
(* [dir, name].                                                            *)
(***************************************************************************)
EXTENDS Integers, Sequences, FiniteSets, TLC

\* ------------------------------------------------------------------ bounds
NumAdj == 3         \* image files in the adjacent folder
MaxIdx == 2         \* indices an operator may type into the index field
MaxTime == 2        \* modification times 0 .. MaxTime
MaxWindow == 2      \* time windows 1 .. MaxWindow
MaxSteps == 4
MaxOps == 3       \* operations per explored session

\* --------------------------------------------------------------- constants
UndoLimit == 50     \* gallery_app.py: if len(state.undo_stack) > 50

\* ---------------------------------------------------------------- universe
\* Python's None where a path is expected
NoPath == [dir |-> <<>>, name |-> [cat |-> "", idx |-> 0, sfx |-> <<>>, ext |-> ""]]
JPG == ".jpg"

SRC == <<"src">>            \* state.source_dir
SUB == <<"src", "sub">>     \* a subfolder of the source folder
ADJ == <<"adj">>            \* state.pair_adjacent_folder
OUT == <<"out">>            \* an output folder outside the source folder

Name(cat, idx, sfx, ext) == [cat |-> cat, idx |-> idx, sfx |-> sfx, ext |-> ext]
Path(dir, name) == [dir |-> dir, name |-> name]

\* os.path.join(dir, component), os.path.dirname, os.path.basename, splitext
join(dir, comp) == Append(dir, comp)
dirname(p) == p.dir
basename(p) == p.name
splitext_ext(name) == name.ext

SrcFile(i) == Path(SRC, Name("img", i, <<>>, JPG))
SubFile(i) == Path(SUB, Name("img", i, <<>>, JPG))
AdjFile(i) == Path(ADJ, Name("pic", i, <<>>, JPG))

\* The images of the source tree: img_001 and img_002 in the folder itself and
\* one img_001 in its subfolder (same basename as the first).
SourceFiles == {SrcFile(1), SrcFile(2), SubFile(1)}
AdjFiles == {AdjFile(i) : i \in 1..NumAdj}
Categories == {"control", "Action"}
\* what get_categories seeds a profile without categories with
SeedCategories == {"_TRASH", "control"}
Profiles == {"Default", "Other"}
Times == 0..MaxTime

\* ---------------------------------------------------------------- state
VARIABLES
    fs,                 \* the files on disk: path -> [data, mtime]
    dirs,               \* the directories on disk
    ledger,             \* table staging_area: original_path -> [cat, name, marked]
    folder_tags,        \* table folder_tags: <<profile, folder, filename>> -> [cat, index]
    processed_log,      \* table processed_log: source_path -> [cat, action]
    undo_stack,         \* state.undo_stack
    staged_data,        \* state.staged_data, the front end's copy of the ledger
    all_images,         \* state.all_images
    active_cat,         \* state.active_cat
    next_index,         \* state.next_index
    profile_name,       \* state.profile_name
    output_dir,         \* state.output_dir
    profile_categories, \* table profile_categories: profile -> its categories
    pair_adjacent_data, \* state.pair_adjacent_data: sequence of <<path, mtime>>
    pair_time_window,   \* state.pair_time_window
    pair_current_idx,   \* state.pair_current_idx (1-based position in all_images)
    pair_matches,       \* state.pair_matches
    pair_selected_match,\* state.pair_selected_match
    pair_index,         \* state.pair_index
    pair_main_category, \* state.pair_main_category
    pair_adj_category,  \* state.pair_adj_category
    last,               \* observation: the operation just performed and what it did
    steps               \* observation: number of operations performed

storeVars == <<ledger, folder_tags, processed_log>>
diskVars == <<fs, dirs>>
appVars == <<undo_stack, staged_data, all_images, active_cat, next_index,
             profile_name, output_dir, profile_categories>>
pairVars == <<pair_adjacent_data, pair_time_window, pair_current_idx,
              pair_matches, pair_selected_match, pair_index,
              pair_main_category, pair_adj_category>>
vars == <<fs, dirs, ledger, folder_tags, processed_log, undo_stack, staged_data,
          all_images, active_cat, next_index, profile_name, output_dir,
          profile_categories,
          pair_adjacent_data, pair_time_window, pair_current_idx, pair_matches,
          pair_selected_match, pair_index, pair_main_category, pair_adj_category,
          last, steps>>

\* ---------------------------------------------------------------- helpers
Min(a, b) == IF a < b THEN a ELSE b
Max(a, b) == IF a > b THEN a ELSE b
abs(x) == IF x < 0 THEN -x ELSE x
Range(s) == {s[i] : i \in 1..Len(s)}
EmptyFn == [x \in {} |-> 0]
Restrict(f, S) == [x \in S |-> f[x]]
Without(f, x) == [y \in DOMAIN f \ {x} |-> f[y]]
IsPrefix(a, b) == Len(a) <= Len(b) /\ SubSeq(b, 1, Len(a)) = a

\* Rank of a word in Python's string order (upper case and '_' sort before
\* lower case).
WordRank(w) ==
    CASE w = "Action" -> 1
      [] w = "_DELETED" -> 2
      [] w = "_TRASH" -> 3
      [] w = "adj" -> 4
      [] w = "control" -> 5
      [] w = "img" -> 6
      [] w = "out" -> 7
      [] w = "pic" -> 8
      [] w = "src" -> 9
      [] w = "sub" -> 10
      [] w = "unused" -> 11
      [] OTHER -> 12

NumOffset == 100
RECURSIVE DirKey(_)
DirKey(d) == IF d = <<>> THEN <<>> ELSE <<WordRank(Head(d))>> \o DirKey(Tail(d))
RECURSIVE SfxKey(_)
SfxKey(s) == IF s = <<>> THEN <<>> ELSE <<NumOffset + Head(s)>> \o SfxKey(Tail(s))
\* the key of a path: its components in order, numbers after words
PathKey(p) == DirKey(p.dir) \o <<WordRank(p.name.cat), NumOffset + p.name.idx>>
              \o SfxKey(p.name.sfx)
RECURSIVE SeqLess(_, _)
SeqLess(a, b) ==
    IF a = <<>> THEN b # <<>>
    ELSE IF b = <<>> THEN FALSE
    ELSE IF Head(a) # Head(b) THEN Head(a) < Head(b)
    ELSE SeqLess(Tail(a), Tail(b))
PathLess(p, q) == SeqLess(PathKey(p), PathKey(q))

\* sorted(S) for a set of paths: the smallest path, then the rest sorted
RECURSIVE sorted(_)
sorted(S) ==
    IF S = {} THEN <<>>
    ELSE CHOOSE r \in {<<m>> \o sorted(S \ {m}) :
                         m \in {x \in S : \A y \in S \ {x} : PathLess(x, y)}} : TRUE

\* os.path.exists on a file path / a directory, for a disk F (files), D (dirs)
exists(F, p) == p \in DOMAIN F
isdir(D, d) == d \in D

\* ------------------------------------------------------- Catalog Scanner
\* SorterEngine.get_images(path, recursive, exclude_paths): every file of the
\* model carries an image extension.  "_DELETED" in root skips the trash
\* folders.
InTrash(d) == \E i \in 1..Len(d) : d[i] = "_DELETED"
\* os.walk(path) top-down: a folder listed in exclude_paths is removed from
\* dirs at its parent, so its whole subtree is not walked; when the walked
\* root itself is excluded only its own files are skipped (continue).
Walked(path, d, exclude_paths) ==
    /\ IsPrefix(path, d)
    /\ ~InTrash(d)
    /\ \A e \in exclude_paths :
          IF e = path THEN d # path
          ELSE IF IsPrefix(path, e) THEN ~IsPrefix(e, d)
          ELSE TRUE
get_images(F, D, path, recursive, exclude_paths) ==
    IF ~isdir(D, path) THEN <<>>
    ELSE IF recursive
         THEN sorted({p \in DOMAIN F : Walked(path, p.dir, exclude_paths)})
         ELSE sorted({p \in DOMAIN F : p.dir = path})

\* ------------------------------------------------------- Temporal Matcher
\* get_file_timestamp(filepath): os.path.getmtime, None (here -1) when it raises
get_file_timestamp(F, p) == IF exists(F, p) THEN F[p].mtime ELSE -1   \* -1: None

\* load_adjacent_folder: the <<path, timestamp>> list cached at load time
AdjacentData(F, D, adjacent, source_dir) ==
    LET images == get_images(F, D, adjacent, TRUE, {source_dir})
    IN [i \in 1..Len(images) |-> <<images[i], get_file_timestamp(F, images[i])>>]

\* a sort that puts a pair before the pairs of the same key already placed
RECURSIVE InsertBeforeEqual(_, _)
InsertBeforeEqual(s, m) ==
    IF s = <<>> THEN <<m>>
    ELSE IF m[2] <= Head(s)[2] THEN <<m>> \o s
    ELSE <<Head(s)>> \o InsertBeforeEqual(Tail(s), m)

\* list.sort(key=lambda x: x[1]) on <<path, delta>> pairs: Python's sort is
\* stable, modelled as an insertion sort that never passes an equal key.
RECURSIVE InsertByDelta(_, _)
InsertByDelta(s, m) ==
    IF s = <<>> THEN <<m>>
    ELSE IF m[2] < Head(s)[2] THEN <<m>> \o s
    ELSE <<Head(s)>> \o InsertByDelta(Tail(s), m)
RECURSIVE SortByDelta(_)
SortByDelta(s) ==
    IF s = <<>> THEN <<>>
    ELSE InsertByDelta(SortByDelta(SubSeq(s, 1, Len(s) - 1)), s[Len(s)])

InWindowLt(time_diff, window) == time_diff < window
InWindow(time_diff, window) == time_diff <= window

\* the <<adj_path, time_diff>> pairs appended by the loop of find_time_matches
RECURSIVE MatchPairs(_, _, _)
MatchPairs(data, source_time, window) ==
    IF data = <<>> THEN <<>>
    ELSE LET adj_path == Head(data)[1]
             time_diff == abs(source_time - Head(data)[2])
             rest == MatchPairs(Tail(data), source_time, window)
         IN IF InWindow(time_diff, window) THEN <<<<adj_path, time_diff>>>> \o rest
            ELSE rest

\* find_time_matches(source_image) over the disk F, the cached data and window
find_time_matches(F, data, window, source_image) ==
    LET source_time == get_file_timestamp(F, source_image)
    IN IF source_time = -1 THEN <<>>
       ELSE LET matches == SortByDelta(MatchPairs(data, source_time, window))
            IN [i \in 1..Len(matches) |-> matches[i][1]]

\* pair_navigate(direction): clamp the position, recompute the matches and
\* preselect the closest one.  Positions are 1-based here.
NavigateTo(direction) ==
    Max(1, Min(pair_current_idx + direction, Len(all_images)))

pair_navigate(direction) ==
    IF all_images = <<>>
    THEN UNCHANGED <<pair_current_idx, pair_matches, pair_selected_match>>
    ELSE /\ pair_current_idx' = NavigateTo(direction)
         /\ pair_matches' = find_time_matches(fs, pair_adjacent_data', pair_time_window',
                                              all_images[NavigateTo(direction)])
         /\ pair_selected_match' = IF pair_matches' # <<>> THEN pair_matches'[1] ELSE NoPath

\* --------------------------------------------------------- Staging Ledger
\* stage_image with the table keyed by new_name instead of original_path:
\* the REPLACE then evicts the rows that carry the same name
stage_image_keyed_by_name(L, original_path, category, new_name) ==
    [p \in {q \in DOMAIN L : L[q].name # new_name} \cup {original_path} |->
        IF p = original_path
        THEN [cat |-> category, name |-> new_name, marked |-> 1]
        ELSE L[p]]

\* SorterEngine.stage_image: INSERT OR REPLACE INTO staging_area VALUES (?, ?, ?, 1)
stage_image(L, original_path, category, new_name) ==
    [p \in DOMAIN L \cup {original_path} |->
        IF p = original_path
        THEN [cat |-> category, name |-> new_name, marked |-> 1]
        ELSE L[p]]

\* clear_staged_item with the WHERE clause dropped
clear_staged_item_all(L, original_path) == EmptyFn

\* SorterEngine.clear_staged_item: DELETE FROM staging_area WHERE original_path = ?
clear_staged_item(L, original_path) == Without(L, original_path)

\* SorterEngine.clear_staging_area: DELETE FROM staging_area
clear_staging_area(L) == EmptyFn

\* SorterEngine.get_staged_data: {path: {"cat", "name", "marked"}}
get_staged_data(L) ==
    [p \in DOMAIN L |-> [cat |-> L[p].cat, name |-> L[p].name, marked |-> L[p].marked]]

\* The orders in which SELECT * FROM staging_area may return the rows of L
\* (SQL fixes no order without ORDER BY).
RECURSIVE Orders(_)
Orders(S) ==
    IF S = {} THEN {<<>>}
    ELSE UNION {{<<x>> \o t : t \in Orders(S \ {x})} : x \in S}
RowOrders(L) == Orders(DOMAIN L)

\* --------------------------------------------------- Folder-Tag Snapshot
\* The characters of the words that occur in folder, category and file
\* names.
WordChars(w) ==
    CASE w = "control" -> <<"c", "o", "n", "t", "r", "o", "l">>
      [] w = "Action" -> <<"A", "c", "t", "i", "o", "n">>
      [] w = "_TRASH" -> <<"_", "T", "R", "A", "S", "H">>
      [] w = "set_2" -> <<"s", "e", "t", "_", "2">>
      [] w = "src" -> <<"s", "r", "c">>
      [] w = "src2" -> <<"s", "r", "c", "2">>
      [] w = "sub" -> <<"s", "u", "b">>
      [] w = "out" -> <<"o", "u", "t">>
      [] w = "adj" -> <<"a", "d", "j">>
      [] w = "unused" -> <<"u", "n", "u", "s", "e", "d">>
      [] w = "_DELETED" -> <<"_", "D", "E", "L", "E", "T", "E", "D">>
      [] w = "img" -> <<"i", "m", "g">>
      [] w = "pic" -> <<"p", "i", "c">>
      [] w = ".jpg" -> <<".", "j", "p", "g">>
      [] OTHER -> <<w>>

DigitChars == <<"0", "1", "2", "3", "4", "5", "6", "7", "8", "9">>
IsDigit(c) == c \in {"0", "1", "2", "3", "4", "5", "6", "7", "8", "9"}
DigitValue(c) == (CHOOSE d \in 1..10 : DigitChars[d] = c) - 1

\* f"{n}"
RECURSIVE Decimal(_)
Decimal(n) ==
    IF n < 10 THEN <<DigitChars[n + 1]>>
    ELSE Decimal(n \div 10) \o <<DigitChars[(n % 10) + 1]>>
\* f"{n:03d}"
Pad3(n) ==
    LET d == Decimal(n)
    IN IF Len(d) >= 3 THEN d ELSE [i \in 1..(3 - Len(d)) |-> "0"] \o d

RECURSIVE SfxChars(_)
SfxChars(sfx) ==
    IF sfx = <<>> THEN <<>> ELSE <<"_">> \o Decimal(Head(sfx)) \o SfxChars(Tail(sfx))

\* the string of a file name, of a directory and of a path
NameChars(name) ==
    WordChars(name.cat) \o <<"_">> \o Pad3(name.idx) \o SfxChars(name.sfx)
        \o WordChars(name.ext)
RECURSIVE DirChars(_)
DirChars(d) ==
    IF d = <<>> THEN <<>>
    ELSE IF Len(d) = 1 THEN WordChars(d[1])
    ELSE WordChars(Head(d)) \o <<"/">> \o DirChars(Tail(d))
PathChars(p) == DirChars(p.dir) \o <<"/">> \o NameChars(p.name)

\* int() of the digit run of s that starts at position i
RECURSIVE DigitRun(_, _, _)
DigitRun(s, i, acc) ==
    IF i <= Len(s) /\ IsDigit(s[i]) THEN DigitRun(s, i + 1, acc * 10 + DigitValue(s[i]))
    ELSE acc

\* match = re.search(r'_(\d+)', s); int(match.group(1)) if match else 0: the
\* first '_' of s, from position i on, that a digit follows
RECURSIVE re_search_from(_, _)
re_search_from(s, i) ==
    IF i >= Len(s) THEN 0
    ELSE IF s[i] = "_" /\ IsDigit(s[i + 1]) THEN DigitRun(s, i + 1, 0)
    ELSE re_search_from(s, i + 1)
re_search_index(s) == re_search_from(s, 1)

\* tag_index of save_folder_tags for the staged name new_name
tag_index(new_name) == re_search_index(NameChars(new_name))

\* gallery_app._extract_index(filename):
\* int(filename.rsplit('_', 1)[1].split('.')[0]), None (-1) on ValueError or
\* IndexError
extract_index(s) ==
    LET us == {i \in 1..Len(s) : s[i] = "_"}
        from == (CHOOSE i \in us : \A j \in us : j <= i) + 1
        dots == {i \in from..Len(s) : s[i] = "."}
        upto == IF dots = {} THEN Len(s)
                ELSE (CHOOSE i \in dots : \A j \in dots : i <= j) - 1
    IN IF us = {} \/ upto < from \/ \E i \in from..upto : ~IsDigit(s[i]) THEN -1
       ELSE DigitRun(s, from, 0)

\* f"{cat}_{index:03d}{ext}"
FormatName(cat, index, ext) == Name(cat, index, <<>>, ext)

\* orig_path.startswith(folder_path): a prefix test on the two strings
startswith(p, folder_path) ==
    \E f \in {DirChars(folder_path)}, d \in {DirChars(p.dir)} :
        IF Len(f) <= Len(d) THEN IsPrefix(f, d) ELSE IsPrefix(f, PathChars(p))

\* profile or "Default"
ProfileOrDefault(profile) == IF profile = "" THEN "Default" ELSE profile

\* the INSERT OR REPLACE loop of save_folder_tags over the rows in order
RECURSIVE SaveRows(_, _, _, _, _)
SaveRows(T, staged, rows, folder_path, profile) ==
    IF rows = <<>> THEN T
    ELSE LET orig_path == Head(rows)
             key == <<profile, folder_path, basename(orig_path)>>
             rec == [cat |-> staged[orig_path].cat,
                     index |-> tag_index(staged[orig_path].name)]
             T1 == IF startswith(orig_path, folder_path)
                   THEN [k \in DOMAIN T \cup {key} |-> IF k = key THEN rec ELSE T[k]]
                   ELSE T
         IN SaveRows(T1, staged, Tail(rows), folder_path, profile)

\* SorterEngine.save_folder_tags(folder_path, profile), rows read in order
\* `rows`: the table afterwards and the returned count
save_folder_tags(L, T, rows, folder_path, profile) ==
    LET staged == get_staged_data(L)
    IN IF DOMAIN staged = {} THEN [tags |-> T, count |-> 0]
       ELSE [tags |-> SaveRows(T, staged, rows, folder_path, ProfileOrDefault(profile)),
             count |-> Cardinality({p \in DOMAIN staged : startswith(p, folder_path)})]

\* filename_to_path of restore_folder_tags: the first image with each basename
FilenameToPath(images, filename) ==
    LET i == CHOOSE k \in 1..Len(images) :
                /\ basename(images[k]) = filename
                /\ \A j \in 1..(k - 1) : basename(images[j]) # filename
    IN images[i]

\* restore_folder_tags without the "SELECT 1 FROM staging_area" test: the
\* saved record replaces the entry a file already has
restore_folder_tags_overwrite(L, T, folder_path, images, profile) ==
    LET prof == ProfileOrDefault(profile)
        saved == {k \in DOMAIN T : k[1] = prof /\ k[2] = folder_path}
        hits == {k \in saved : \E i \in 1..Len(images) : basename(images[i]) = k[3]}
        paths == {FilenameToPath(images, k[3]) : k \in hits}
        KeyOf(path) == CHOOSE k \in hits : FilenameToPath(images, k[3]) = path
    IN [ledger |-> [p \in DOMAIN L \cup paths |->
                      IF p \notin paths THEN L[p]
                      ELSE [cat |-> T[KeyOf(p)].cat,
                            name |-> FormatName(T[KeyOf(p)].cat, T[KeyOf(p)].index,
                                                splitext_ext(basename(p))),
                            marked |-> 1]],
        restored |-> Cardinality(hits)]

\* restore_folder_tags with "WHERE folder_path = ?" only: the records of
\* every profile are read
restore_folder_tags_any_profile(L, T, folder_path, images, profile) ==
    LET saved == {k \in DOMAIN T : k[2] = folder_path}
        hits == {k \in saved :
                    /\ \E i \in 1..Len(images) : basename(images[i]) = k[3]
                    /\ FilenameToPath(images, k[3]) \notin DOMAIN L}
        paths == {FilenameToPath(images, k[3]) : k \in hits}
        KeyOf(path) == CHOOSE k \in hits : FilenameToPath(images, k[3]) = path
    IN [ledger |-> [p \in DOMAIN L \cup paths |->
                      IF p \in DOMAIN L THEN L[p]
                      ELSE [cat |-> T[KeyOf(p)].cat,
                            name |-> FormatName(T[KeyOf(p)].cat, T[KeyOf(p)].index,
                                                splitext_ext(basename(p))),
                            marked |-> 1]],
        restored |-> Cardinality(hits)]

\* SorterEngine.restore_folder_tags(folder_path, all_images, profile): the
\* ledger afterwards and the returned count
restore_folder_tags(L, T, folder_path, images, profile) ==
    LET prof == ProfileOrDefault(profile)
        saved == {k \in DOMAIN T : k[1] = prof /\ k[2] = folder_path}
        hits == {k \in saved :
                    /\ \E i \in 1..Len(images) : basename(images[i]) = k[3]
                    /\ FilenameToPath(images, k[3]) \notin DOMAIN L}
        paths == {FilenameToPath(images, k[3]) : k \in hits}
        KeyOf(path) == CHOOSE k \in hits : FilenameToPath(images, k[3]) = path
    IN [ledger |-> [p \in DOMAIN L \cup paths |->
                      IF p \in DOMAIN L THEN L[p]
                      ELSE [cat |-> T[KeyOf(p)].cat,
                            name |-> FormatName(T[KeyOf(p)].cat, T[KeyOf(p)].index,
                                                splitext_ext(basename(p))),
                            marked |-> 1]],
        restored |-> Cardinality(hits)]

\* ----------------------------------------------------------- Commit Engine
\* The disk and tables while a commit runs: files F, directories D, ledger L,
\* processed_log G, what was written (wrote: <<source, destination>> in
\* order), what cleanup handled, and whether a filesystem call raised (and on
\* which file).
CommitState(F, D, L, G) ==
    [fs |-> F, dirs |-> D, ledger |-> L, log |-> G, wrote |-> <<>>,
     cleaned |-> {}, raised |-> FALSE, failed |-> NoPath]

\* os.makedirs(d, exist_ok=True)
makedirs(D, d) == D \cup {SubSeq(d, 1, k) : k \in 1..Len(d)}

\* f"{root}_{c}{ext}" with root, ext = os.path.splitext(name)
WithSuffix(name, c) == [name EXCEPT !.sfx = Append(@, c)]

\* while os.path.exists(final_dst): final_dst = join(output_root, f"{root}_{c}{ext}"); c += 1
RECURSIVE NextFree(_, _, _, _)
NextFree(F, output_root, name, c) ==
    IF exists(F, Path(output_root, WithSuffix(name, c)))
    THEN NextFree(F, output_root, name, c + 1)
    ELSE Path(output_root, WithSuffix(name, c))

\* final_dst of commit_global / commit_batch
FinalDst(F, output_root, name) ==
    IF exists(F, Path(output_root, name))
    THEN NextFree(F, output_root, name, 1)
    ELSE Path(output_root, name)

\* shutil.copy2(src, dst): content and modification time
copy2(F, src, dst) == [q \in DOMAIN F \cup {dst} |-> IF q = dst THEN F[src] ELSE F[q]]
\* shutil.move(src, dst) onto a file path: os.rename, replacing dst
move(F, src, dst) ==
    [q \in (DOMAIN F \ {src}) \cup {dst} |-> IF q = dst THEN F[src] ELSE F[q]]
\* os.remove(p)
remove(F, p) == Without(F, p)

\* A filesystem call on a file of `bad` raises (permissions, I/O error).
Raise(cs, p) == [cs EXCEPT !.raised = TRUE, !.failed = p]

\* the body of "if os.path.exists(old_p):" for one staged row
CommitStaged(cs, old_p, info, output_root, operation, bad) ==
    LET final_dst == FinalDst(cs.fs, output_root, info.name)
    IN IF old_p \in bad THEN Raise(cs, old_p)
       ELSE [cs EXCEPT
               !.fs = IF operation = "Copy" THEN copy2(cs.fs, old_p, final_dst)
                      ELSE move(cs.fs, old_p, final_dst),
               !.wrote = Append(@, <<old_p, final_dst>>),
               !.log = [q \in DOMAIN cs.log \cup {old_p} |->
                          IF q = old_p THEN [cat |-> info.cat, action |-> operation]
                          ELSE cs.log[q]]]

\* cleanup of one unstaged file: relocate into unused_dir, or delete
CleanupFile(cs, img_p, unused_dir, cleanup_mode, bad) ==
    IF img_p \in bad \/ ~exists(cs.fs, img_p) THEN Raise(cs, img_p)
    ELSE IF cleanup_mode = "Move to Unused"
    THEN [cs EXCEPT !.dirs = makedirs(cs.dirs, unused_dir),
                    !.fs = move(cs.fs, img_p, Path(unused_dir, basename(img_p))),
                    !.cleaned = @ \cup {img_p}]
    ELSE IF cleanup_mode = "Delete"
    THEN [cs EXCEPT !.fs = remove(cs.fs, img_p), !.cleaned = @ \cup {img_p}]
    ELSE cs

\* step 1 without the os.path.exists(old_p) test: the copy or move of a
\* missing file raises FileNotFoundError
RECURSIVE GlobalStagedNoSkip(_, _, _, _, _, _)
GlobalStagedNoSkip(cs, rows, data, output_root, operation, bad) ==
    IF rows = <<>> \/ cs.raised THEN cs
    ELSE LET old_p == Head(rows)
             cs1 == IF exists(cs.fs, old_p)
                    THEN CommitStaged(cs, old_p, data[old_p], output_root, operation, bad)
                    ELSE Raise(cs, old_p)
         IN GlobalStagedNoSkip(cs1, Tail(rows), data, output_root, operation, bad)

\* commit_global, step 1: for old_p, info in data.items()
RECURSIVE GlobalStaged(_, _, _, _, _, _)
GlobalStaged(cs, rows, data, output_root, operation, bad) ==
    IF rows = <<>> \/ cs.raised THEN cs
    ELSE LET old_p == Head(rows)
             cs1 == IF exists(cs.fs, old_p)
                    THEN CommitStaged(cs, old_p, data[old_p], output_root, operation, bad)
                    ELSE cs
         IN GlobalStaged(cs1, Tail(rows), data, output_root, operation, bad)

\* commit_global, step 2: for img_p in all_imgs: if img_p not in data
RECURSIVE GlobalCleanup(_, _, _, _, _, _)
GlobalCleanup(cs, all_imgs, data, source_root, cleanup_mode, bad) ==
    IF all_imgs = <<>> \/ cs.raised THEN cs
    ELSE LET img_p == Head(all_imgs)
             cs1 == IF img_p \notin DOMAIN data
                    THEN CleanupFile(cs, img_p, join(source_root, "unused"),
                                     cleanup_mode, bad)
                    ELSE cs
         IN GlobalCleanup(cs1, Tail(all_imgs), data, source_root, cleanup_mode, bad)

\* A raise leaves the function before conn.commit(): the connection's
\* changes to staging_area and processed_log are rolled back.
Finish(cs, L, G) ==
    IF cs.raised THEN [cs EXCEPT !.ledger = L, !.log = G] ELSE cs

\* SorterEngine.commit_global(output_root, cleanup_mode, operation, source_root,
\* profile) on disk F, D with tables L (staging_area), T (folder_tags) and
\* G (processed_log), the rows read in order `rows`.
commit_global(F, D, L, T, G, rows, output_root, cleanup_mode, operation, source_root, profile, bad) ==
    LET data == get_staged_data(L)
        tags == IF source_root # <<>>
                THEN save_folder_tags(L, T, rows, source_root, profile).tags
                ELSE T
        cs0 == CommitState(F, IF isdir(D, output_root) THEN D ELSE makedirs(D, output_root),
                           L, G)
        cs1 == GlobalStaged(cs0, rows, data, output_root, operation, bad)
        cs2 == IF cleanup_mode # "Keep" /\ source_root # <<>> /\ ~cs1.raised
               THEN GlobalCleanup(cs1, get_images(cs1.fs, cs1.dirs, source_root, TRUE, {}),
                                  data, source_root, cleanup_mode, bad)
               ELSE cs1
    IN Finish([cs2 EXCEPT !.ledger = clear_staging_area(L)], L, G) @@ [tags |-> tags]

\* the loop of commit_batch over file_list
RECURSIVE BatchLoop(_, _, _, _, _, _, _)
BatchLoop(cs, file_list, data, output_root, cleanup_mode, operation, bad) ==
    IF file_list = <<>> \/ cs.raised THEN cs
    ELSE LET file_path == Head(file_list)
             cs1 == IF ~exists(cs.fs, file_path) THEN cs
                    ELSE IF file_path \in DOMAIN data /\ data[file_path].marked = 1
                    THEN LET w == CommitStaged(cs, file_path, data[file_path],
                                               output_root, operation, bad)
                         IN IF w.raised THEN w
                            ELSE [w EXCEPT !.ledger = clear_staged_item(@, file_path)]
                    ELSE IF cleanup_mode # "Keep"
                    THEN CleanupFile(cs, file_path, join(dirname(file_path), "unused"),
                                     cleanup_mode, bad)
                    ELSE cs
         IN BatchLoop(cs1, Tail(file_list), data, output_root, cleanup_mode, operation, bad)

\* SorterEngine.commit_batch(file_list, output_root, cleanup_mode, operation)
commit_batch(F, D, L, G, file_list, output_root, cleanup_mode, operation, bad) ==
    LET data == get_staged_data(L)
        cs0 == CommitState(F, IF isdir(D, output_root) THEN D ELSE makedirs(D, output_root),
                           L, G)
    IN Finish(BatchLoop(cs0, file_list, data, output_root, cleanup_mode, operation, bad),
              L, G)

CleanupModes == {"Keep", "Move to Unused", "Delete"}
Operations == {"Copy", "Move"}

\* ---------------------------------------------- specification SpecMatch
\* The pairing view over a source folder of two images and an adjacent
\* folder, for every assignment of modification times.
MatchSources == {SrcFile(1), SrcFile(2)}
MatchDefaults ==
    /\ ledger = EmptyFn /\ folder_tags = EmptyFn /\ processed_log = EmptyFn
    /\ undo_stack = <<>> /\ staged_data = EmptyFn
    /\ active_cat = "control" /\ next_index = 1
    /\ profile_name = "Default" /\ output_dir = OUT
    /\ profile_categories = [p \in Profiles |-> SeedCategories]
    /\ pair_index = 1
    /\ pair_main_category = "control" /\ pair_adj_category = "control"

InitMatch ==
    /\ \E mt \in [MatchSources \cup AdjFiles -> Times] :
          fs = [p \in MatchSources \cup AdjFiles |-> [data |-> p, mtime |-> mt[p]]]
    /\ dirs = {SRC, ADJ, OUT}
    /\ all_images = get_images(fs, dirs, SRC, TRUE, {})
    /\ pair_adjacent_data = <<>>
    /\ pair_time_window \in 1..MaxWindow
    /\ pair_current_idx = 1
    /\ pair_matches = <<>>
    /\ pair_selected_match = NoPath
    /\ last = [op |-> "init"]
    /\ steps = 0
    /\ MatchDefaults

MatchFrame ==
    UNCHANGED <<fs, dirs, ledger, folder_tags, processed_log, undo_stack,
                staged_data, all_images, active_cat, next_index, profile_name,
                output_dir, profile_categories, pair_index, pair_main_category,
                pair_adj_category, steps>>

\* LOAD ADJACENT button: load_adjacent_folder(), then pair_navigate(0)
LoadAdjacent ==
    /\ pair_adjacent_data' = AdjacentData(fs, dirs, ADJ, SRC)
    /\ UNCHANGED pair_time_window
    /\ pair_navigate(0)
    /\ last' = [op |-> "load_adjacent_folder"]
    /\ MatchFrame

\* arrow buttons / keys: pair_navigate(-1), pair_navigate(1)
Navigate ==
    \E direction \in {-1, 1} :
        /\ UNCHANGED <<pair_adjacent_data, pair_time_window>>
        /\ pair_navigate(direction)
        /\ last' = [op |-> "pair_navigate"]
        /\ MatchFrame

\* the "+-sec" field: setattr(state, 'pair_time_window', v), pair_navigate(0)
SetTimeWindow ==
    \E w \in 1..MaxWindow :
        /\ pair_time_window' = w
        /\ UNCHANGED pair_adjacent_data
        /\ pair_navigate(0)
        /\ last' = [op |-> "set_time_window"]
        /\ MatchFrame

\* select_match(match_path): one of the match buttons shown
SelectMatch ==
    \E k \in 1..Len(pair_matches) :
        /\ pair_selected_match' = pair_matches[k]
        /\ UNCHANGED <<pair_adjacent_data, pair_time_window, pair_current_idx,
                       pair_matches>>
        /\ last' = [op |-> "select_match"]
        /\ MatchFrame

NextMatch == LoadAdjacent \/ Navigate \/ SetTimeWindow \/ SelectMatch
SpecMatch == InitMatch /\ [][NextMatch]_vars

\* the cached timestamp of a candidate and its distance to the source image
CachedTime(adj_path) ==
    LET i == CHOOSE k \in 1..Len(pair_adjacent_data) : pair_adjacent_data[k][1] = adj_path
    IN pair_adjacent_data[i][2]
SourceTime == fs[all_images[pair_current_idx]].mtime
Delta(adj_path) == abs(SourceTime - CachedTime(adj_path))
CachedPaths == {pair_adjacent_data[k][1] : k \in 1..Len(pair_adjacent_data)}

\* C1: the matches are exactly the cached candidates whose distance to the
\* source image's modification time is at most the window (none outside the
\* window, none inside it omitted, none twice), in non-decreasing distance.
C1_MatchesExactlyWindowSorted ==
    /\ Range(pair_matches) = {c \in CachedPaths : Delta(c) <= pair_time_window}
    /\ \A i, j \in 1..Len(pair_matches) :
          i < j => /\ pair_matches[i] # pair_matches[j]
                   /\ Delta(pair_matches[i]) <= Delta(pair_matches[j])

\* a match list of two candidates at different distances, the second exactly
\* on the window's edge, while a third cached candidate lies outside the window
C1_Witness ==
    /\ last.op = "pair_navigate"
    /\ Len(pair_matches) = 2
    /\ Delta(pair_matches[1]) < Delta(pair_matches[2])
    /\ Delta(pair_matches[2]) = pair_time_window
    /\ \E c \in CachedPaths : Delta(c) > pair_time_window

\* the position of a candidate in the cached list
CachedPos(adj_path) ==
    CHOOSE k \in 1..Len(pair_adjacent_data) : pair_adjacent_data[k][1] = adj_path

\* C22: two matches at the same distance from the source image stand in the
\* match list in the order they have in the cached candidate list.
C22_TiesKeepInputOrder ==
    \A i, j \in 1..Len(pair_matches) :
        (i < j /\ Delta(pair_matches[i]) = Delta(pair_matches[j]))
            => CachedPos(pair_matches[i]) < CachedPos(pair_matches[j])

\* three matches, the last two tied behind a closer one that the cached
\* list holds after them
C22_Witness ==
    /\ Len(pair_matches) = 3
    /\ Delta(pair_matches[1]) < Delta(pair_matches[2])
    /\ Delta(pair_matches[2]) = Delta(pair_matches[3])
    /\ CachedPos(pair_matches[1]) > CachedPos(pair_matches[3])

\* --------------------------------------------- specification SpecLedger
\* The ledger API of the engine, called with every path, category and name.
AllOnDisk == [p \in SourceFiles |-> [data |-> p, mtime |-> 0]]
LedgerDefaults ==
    /\ undo_stack = <<>> /\ staged_data = EmptyFn
    /\ all_images = sorted(SourceFiles)
    /\ active_cat = "control" /\ next_index = 1
    /\ profile_name = "Default" /\ output_dir = OUT
    /\ profile_categories = [p \in Profiles |-> SeedCategories]
    /\ pair_adjacent_data = <<>> /\ pair_time_window = 1 /\ pair_current_idx = 1
    /\ pair_matches = <<>> /\ pair_selected_match = NoPath /\ pair_index = 1
    /\ pair_main_category = "control" /\ pair_adj_category = "control"
    /\ steps = 0

NoRoundTrip == [rt_path |-> NoPath, rt_before |-> EmptyFn]

InitLedger ==
    /\ fs = AllOnDisk
    /\ dirs = {SRC, SUB, OUT}
    /\ ledger = EmptyFn
    /\ folder_tags = EmptyFn
    /\ processed_log = EmptyFn
    /\ last = [op |-> "init", path |-> NoPath] @@ NoRoundTrip
    /\ LedgerDefaults

LedgerFrame ==
    UNCHANGED <<fs, dirs, folder_tags, processed_log, appVars, pairVars, steps>>

\* stage_image(original_path, category, new_name); `last` remembers the table
\* as it was before the call
StageImage ==
    \E original_path \in SourceFiles, category \in Categories, idx \in 1..MaxIdx :
        /\ ledger' = stage_image(ledger, original_path, category,
                                 FormatName(category, idx, splitext_ext(basename(original_path))))
        /\ last' = [op |-> "stage_image", path |-> original_path,
                    rt_path |-> original_path, rt_before |-> get_staged_data(ledger)]
        /\ LedgerFrame

\* clear_staged_item(original_path); `last` keeps the remembered table only
\* when the call directly follows the stage_image of the same path
ClearStagedItem ==
    \E original_path \in SourceFiles :
        /\ ledger' = clear_staged_item(ledger, original_path)
        /\ last' = [op |-> "clear_staged_item", path |-> original_path] @@
                   (IF last.op = "stage_image" /\ last.path = original_path
                    THEN [rt_path |-> last.rt_path, rt_before |-> last.rt_before]
                    ELSE NoRoundTrip)
        /\ LedgerFrame

ClearStagingArea ==
    /\ ledger' = clear_staging_area(ledger)
    /\ last' = [op |-> "clear_staging_area", path |-> NoPath] @@ NoRoundTrip
    /\ LedgerFrame

NextLedger == StageImage \/ ClearStagedItem \/ ClearStagingArea
SpecLedger == InitLedger /\ [][NextLedger]_vars

\* stage_image(p, ..) directly followed by clear_staged_item(p) has just run
RoundTripDone == last.op = "clear_staged_item" /\ last.rt_path = last.path

\* C2 as stated: after stage_image(p, category, name) followed by
\* clear_staged_item(p), get_staged_data() equals the ledger as it was before
\* the stage, whatever that ledger was.
C2_RoundTripAnyLedger ==
    RoundTripDone => get_staged_data(ledger) = last.rt_before

\* C2 amended: the round trip leaves p without an entry and every other entry
\* as it was; it gives back the prior ledger when p had no entry before the
\* stage.
C2_RoundTripUnstaged ==
    RoundTripDone =>
        /\ last.path \notin DOMAIN ledger
        /\ get_staged_data(ledger) = Without(last.rt_before, last.path)
        /\ last.path \notin DOMAIN last.rt_before
              => get_staged_data(ledger) = last.rt_before

\* a round trip on a path without entry, beside another entry that carries
\* the very name the round trip staged
C2_Witness ==
    /\ RoundTripDone
    /\ last.path \notin DOMAIN last.rt_before
    /\ \E q \in DOMAIN ledger : ledger[q].name = FormatName("Action", 1, JPG)
    /\ Cardinality(DOMAIN ledger) = 2

\* ------------------------------------------- specification SpecSnapshot
\* save_folder_tags / clear_staging_area / restore_folder_tags from every
\* ledger that tagging can build over the source tree.
StagedLedgers ==
    {L \in UNION {[S -> [cat : Categories, idx : 1..MaxIdx]] : S \in SUBSET SourceFiles} : TRUE}
LedgerOf(choice) ==
    [p \in DOMAIN choice |->
        [cat |-> choice[p].cat,
         name |-> FormatName(choice[p].cat, choice[p].idx, splitext_ext(basename(p))),
         marked |-> 1]]
NoSave == [saved |-> EmptyFn, saved_folder |-> <<>>, saved_profile |-> ""]
KeepSave == [saved |-> last.saved, saved_folder |-> last.saved_folder,
             saved_profile |-> last.saved_profile]

InitSnapshot ==
    /\ fs = AllOnDisk
    /\ dirs = {SRC, SUB, OUT}
    /\ \E choice \in StagedLedgers : ledger = LedgerOf(choice)
    /\ folder_tags = EmptyFn
    /\ processed_log = EmptyFn
    /\ last = [op |-> "init", folder |-> <<>>, profile |-> "", before |-> EmptyFn] @@ NoSave
    /\ LedgerDefaults

SnapshotFrame ==
    /\ steps < MaxSteps
    /\ steps' = steps + 1
    /\ UNCHANGED <<fs, dirs, processed_log, appVars, pairVars>>

\* save_folder_tags(folder_path, profile)
SaveFolderTags ==
    \E folder_path \in {SRC, SUB}, profile \in {"", "Other"}, rows \in RowOrders(ledger) :
        /\ folder_tags' = save_folder_tags(ledger, folder_tags, rows, folder_path, profile).tags
        /\ UNCHANGED ledger
        /\ last' = [op |-> "save_folder_tags", folder |-> folder_path,
                    profile |-> ProfileOrDefault(profile), before |-> ledger,
                    saved |-> ledger, saved_folder |-> folder_path,
                    saved_profile |-> ProfileOrDefault(profile)]
        /\ SnapshotFrame

SnapshotClear ==
    /\ ledger' = clear_staging_area(ledger)
    /\ UNCHANGED folder_tags
    /\ last' = [op |-> "clear_staging_area", folder |-> <<>>, profile |-> "",
                before |-> ledger] @@ KeepSave
    /\ SnapshotFrame

\* restore_folder_tags(folder_path, all_images, profile) with the images of a
\* fresh recursive scan of the folder
RestoreFolderTags ==
    \E folder_path \in {SRC, SUB}, profile \in {"", "Other"} :
        /\ ledger' = restore_folder_tags(ledger, folder_tags, folder_path,
                                         get_images(fs, dirs, folder_path, TRUE, {}),
                                         profile).ledger
        /\ UNCHANGED folder_tags
        /\ last' = [op |-> "restore_folder_tags", folder |-> folder_path,
                    profile |-> ProfileOrDefault(profile), before |-> ledger] @@ KeepSave
        /\ SnapshotFrame

NextSnapshot == SaveFolderTags \/ SnapshotClear \/ RestoreFolderTags
SpecSnapshot == InitSnapshot /\ [][NextSnapshot]_vars

\* restore_folder_tags has just run on an empty ledger for the folder and
\* profile of the latest save_folder_tags
RestoredAfterSave ==
    /\ last.op = "restore_folder_tags"
    /\ last.before = EmptyFn
    /\ last.folder = last.saved_folder
    /\ last.profile = last.saved_profile

\* C6: save_folder_tags(folder, profile) followed by restore_folder_tags(folder,
\* same files, profile) on an empty ledger gives every file of the folder
\* that was staged at the save, and still exists, the category and index it
\* had when saved.
C6_SnapshotRoundTrip ==
    RestoredAfterSave =>
        \A p \in DOMAIN last.saved :
            (startswith(p, last.folder) /\ exists(fs, p)) =>
                /\ p \in DOMAIN ledger
                /\ ledger[p].cat = last.saved[p].cat
                /\ ledger[p].name.idx = last.saved[p].name.idx

\* --------------------------------------------- specification SpecCommit
\* One commit_global or commit_batch from every ledger over the source tree,
\* with the output folder outside the source folder or equal to it, files
\* already present at the output, a staged file possibly gone from disk, and
\* at most one file on which filesystem calls raise. all_images is the scan
\* made when the folder was loaded, before a staged file went missing.
PreOutSets == {{}, {Name("control", 1, <<>>, JPG)},
               {Name("control", 1, <<>>, JPG), Name("control", 1, <<1>>, JPG)}}
BadSets == {{}} \cup {{p} : p \in SourceFiles}
\* the ledgers of one category: the names collide when the indexes agree
CommitLedgers == {choice \in StagedLedgers : \A p \in DOMAIN choice : choice[p].cat = "control"}
OnDisk(paths) == [p \in paths |-> [data |-> p, mtime |-> 0]]
\* state.get_current_batch(): a page of the scanned images
Pages(images) ==
    {images} \cup {SubSeq(images, i, i) : i \in 1..Len(images)}

InitCommit ==
    /\ output_dir \in {OUT, SRC}
    /\ \E present \in {SourceFiles, SourceFiles \ {SrcFile(2)}}, pre \in PreOutSets :
          fs = OnDisk(present \cup {Path(output_dir, n) : n \in pre})
    /\ dirs \in {{SRC, SUB, OUT}} \cup
                (IF \E q \in DOMAIN fs : q.dir = OUT THEN {} ELSE {{SRC, SUB}})
    /\ \E choice \in CommitLedgers : ledger = LedgerOf(choice)
    /\ folder_tags = EmptyFn
    /\ processed_log = EmptyFn
    /\ last = [op |-> "init"]
    /\ undo_stack = <<>> /\ staged_data = get_staged_data(ledger)
    /\ all_images = get_images(fs @@ OnDisk(SourceFiles), dirs, SRC, TRUE, {})
    /\ active_cat = "control" /\ next_index = 1 /\ profile_name = "Default"
    /\ profile_categories = [p \in Profiles |-> SeedCategories]
    /\ pair_adjacent_data = <<>> /\ pair_time_window = 1 /\ pair_current_idx = 1
    /\ pair_matches = <<>> /\ pair_selected_match = NoPath /\ pair_index = 1
    /\ pair_main_category = "control" /\ pair_adj_category = "control"
    /\ steps = 0

CommitFrame ==
    /\ steps' = steps + 1
    /\ UNCHANGED <<appVars, pairVars>>

\* what `last` records of a commit: its arguments, the disk and ledger
\* before it, and what it did
CommitRecord(op, r, scope, cleanup_mode, operation, bad) ==
    [op |-> op, scope |-> scope, output_root |-> output_dir,
     cleanup_mode |-> cleanup_mode, operation |-> operation, bad |-> bad,
     pre_fs |-> fs, pre_dirs |-> dirs, pre_ledger |-> ledger,
     wrote |-> r.wrote, cleaned |-> r.cleaned, raised |-> r.raised,
     failed |-> r.failed]

CommitGlobal ==
    /\ last.op = "init"
    /\ \E cleanup_mode \in CleanupModes, operation \in Operations,
       rows \in RowOrders(ledger), bad \in BadSets :
        \E r \in {commit_global(fs, dirs, ledger, folder_tags, processed_log, rows,
                               output_dir, cleanup_mode, operation, SRC,
                               profile_name, bad)} :
           /\ fs' = r.fs /\ dirs' = r.dirs /\ ledger' = r.ledger
           /\ folder_tags' = r.tags /\ processed_log' = r.log
           /\ last' = CommitRecord("commit_global", r, rows, cleanup_mode, operation, bad)
           /\ CommitFrame

CommitBatch ==
    /\ last.op = "init"
    /\ \E cleanup_mode \in CleanupModes, operation \in Operations,
       file_list \in Pages(all_images), bad \in BadSets :
        \E r \in {commit_batch(fs, dirs, ledger, processed_log, file_list,
                              output_dir, cleanup_mode, operation, bad)} :
           /\ fs' = r.fs /\ dirs' = r.dirs /\ ledger' = r.ledger
           /\ UNCHANGED folder_tags /\ processed_log' = r.log
           /\ last' = CommitRecord("commit_batch", r, file_list, cleanup_mode, operation, bad)
           /\ CommitFrame

NextCommit == CommitGlobal \/ CommitBatch
SpecCommit == InitCommit /\ [][NextCommit]_vars

Committed == last.op \in {"commit_global", "commit_batch"}
\* the staged files the commit reached: in scope, staged and on disk before it
InScope(p) == \E i \in 1..Len(last.scope) : last.scope[i] = p
StagedInScope ==
    {p \in DOMAIN last.pre_ledger : InScope(p) /\ exists(last.pre_fs, p)}
Wrote == {last.wrote[i] : i \in 1..Len(last.wrote)}

\* C7: a commit with an empty ledger and cleanup policy Keep changes no file
\* and no directory, whether output_root exists or not.
C7_EmptyKeepChangesNothing ==
    (Committed /\ last.pre_ledger = EmptyFn /\ last.cleanup_mode = "Keep")
        => (fs = last.pre_fs /\ dirs = last.pre_dirs)

\* C8: when a filesystem call of a commit raises on one file, every other
\* staged file of the batch is still copied or moved (and the failure is
\* reported rather than ending the batch).
C8_FailureIsolated ==
    (Committed /\ last.raised) =>
        \A p \in StagedInScope \ {last.failed} : \E w \in Wrote : w[1] = p

\* C3: after a commit that did not raise, every staged file it wrote is no
\* longer listed by a re-scan of the source folder at its old path, and the
\* resolved destination holds its content, for every operation and cleanup
\* policy.
C3_SourceGoneDestinationHolds ==
    (Committed /\ ~last.raised) =>
        \A w \in Wrote :
            /\ w[1] \notin Range(get_images(fs, dirs, SRC, TRUE, {}))
            /\ exists(fs, w[2])
            /\ fs[w[2]].data = last.pre_fs[w[1]].data

\* C9: every file present at the output folder before a commit is still
\* there with its content after it.
C9_OutputFilesKept ==
    Committed =>
        \A p \in DOMAIN last.pre_fs :
            p.dir = last.output_root =>
                (exists(fs, p) /\ fs[p].data = last.pre_fs[p].data)

\* C14: cleanup relocates or deletes only files of the commit's scope that
\* have no entry: no path with an entry is cleaned, no file that the commit
\* has just moved for its entry is cleaned, and under Keep nothing is cleaned
\* and every unstaged file stays as it was.
C14_CleanupOnlyUnstaged ==
    Committed =>
        /\ \A p \in last.cleaned :
              /\ p \notin DOMAIN last.pre_ledger
              /\ ~(last.operation = "Move" /\ \E w \in Wrote : w[2] = p)
        /\ last.cleanup_mode = "Keep" =>
              /\ last.cleaned = {}
              /\ \A p \in DOMAIN last.pre_fs \ DOMAIN last.pre_ledger :
                    exists(fs, p) /\ fs[p] = last.pre_fs[p]

\* C15: a commit writes every staged file into output_root/<category>, the
\* folder whose occupancy action_tag examined when the name was chosen.
C15_WrittenUnderCategory ==
    Committed =>
        \A w \in Wrote : w[2].dir = join(last.output_root, last.pre_ledger[w[1]].cat)

\* the staged paths of the commit's scope whose file was gone before it
MissingInScope ==
    {p \in DOMAIN last.pre_ledger : InScope(p) /\ ~exists(last.pre_fs, p)}

\* C16: a commit on which no filesystem call fails skips a staged path whose
\* file is gone: it does not raise, nothing is written from or cleaned at
\* that path, and every other staged file of the scope is written.
C16_MissingSkipped ==
    (Committed /\ last.bad = {}) =>
        /\ ~last.raised
        /\ \A p \in MissingInScope :
              /\ ~\E w \in Wrote : w[1] = p
              /\ p \notin last.cleaned
              /\ ~exists(fs, p)
        /\ \A p \in StagedInScope : \E w \in Wrote : w[1] = p

\* a commit over a staged path whose file is gone and a staged file it wrote
C16_Witness ==
    /\ Committed /\ last.bad = {}
    /\ MissingInScope # {}
    /\ Wrote # {}

\* C24: no destination a commit wrote is relocated or deleted by the cleanup
\* of the same commit, for Copy and Move, every cleanup policy, and the
\* output folder outside the source folder or equal to it.
C24_WrittenNotCleaned ==
    Committed => \A w \in Wrote : w[2] \notin last.cleaned

\* C25: after a commit in which a filesystem call raised, every file it had
\* already copied or moved has a processed_log record and no entry, and
\* every staged file it had not processed keeps its entry.
C25_RaiseLeavesLedgerInStep ==
    (Committed /\ last.raised) =>
        /\ \A w \in Wrote :
              w[1] \in DOMAIN processed_log /\ w[1] \notin DOMAIN ledger
        /\ \A p \in DOMAIN last.pre_ledger :
              (~\E w \in Wrote : w[1] = p) =>
                  (p \in DOMAIN ledger /\ ledger[p] = last.pre_ledger[p])

\* C26: after a commit with cleanup policy Move to Unused, every source file
\* the cleanup relocated is in an unused folder under its own filename with
\* its own content.
C26_UnusedKeepsEveryFile ==
    (Committed /\ last.cleanup_mode = "Move to Unused") =>
        \A p \in last.cleaned \cap DOMAIN last.pre_fs :
            \E q \in DOMAIN fs :
                /\ q.dir # <<>> /\ q.dir[Len(q.dir)] = "unused"
                /\ basename(q) = basename(p)
                /\ fs[q].data = last.pre_fs[p].data

\* C27: after a commit that did not raise, every staged file it copied or
\* moved has a processed_log record with its category and the operation, and
\* the entries gone from the ledger are exactly those of the files it wrote.
C27_LogAndEntryPerWrittenFile ==
    (Committed /\ ~last.raised) =>
        /\ \A w \in Wrote :
              /\ w[1] \in DOMAIN processed_log
              /\ processed_log[w[1]] = [cat |-> last.pre_ledger[w[1]].cat,
                                        action |-> last.operation]
        /\ DOMAIN last.pre_ledger \ DOMAIN ledger = {w[1] : w \in Wrote}
        /\ \A p \in DOMAIN ledger : ledger[p] = last.pre_ledger[p]

\* ------------------------------------------------- specification Spec
\* The handlers of gallery_app.py over the engine: folder load, tagging,
\* untagging, undo, pair tagging, page and global commit, category and
\* profile changes.
OUTCAT(cat) == join(OUT, cat)
AppPreSets == {{}, {Path(OUTCAT("control"), Name("control", 1, <<>>, JPG))},
               {Path(OUTCAT("control"), Name("control", 1, <<>>, JPG)),
                Path(OUTCAT("control"), Name("control", 1, <<1>>, JPG))}}
DefaultWindow == 1

\* the rank of a category under ORDER BY category COLLATE NOCASE ASC
CatRank(c) == CASE c = "_TRASH" -> 1 [] c = "Action" -> 2 [] c = "control" -> 3 [] OTHER -> 4
\* SorterEngine.get_categories(profile): the table rows, seeded when empty
get_categories(PC, profile) ==
    IF PC[profile] = {} THEN SeedCategories ELSE PC[profile]
\* cats[0]
FirstCategory(cats) == CHOOSE c \in cats : \A d \in cats : CatRank(c) <= CatRank(d)

\* state.undo_stack.append(entry) without the limit
PushUndoNoLimit(stack, entry) == Append(stack, entry)
\* state.undo_stack.append(entry); if len(state.undo_stack) > 50: pop(0)
PushUndo(stack, entry) ==
    IF Len(stack) + 1 > UndoLimit THEN Tail(Append(stack, entry)) ELSE Append(stack, entry)

\* load_images() on disk F, D, ledger L and tags T, with the front end's
\* all_images and staged_data as they are when it is called
load_images(F, D, L, T, rows) ==
    IF ~isdir(D, SRC)
    THEN [ledger |-> L, tags |-> T, all_images |-> all_images, loaded |-> FALSE]
    ELSE LET T1 == IF all_images # <<>> /\ DOMAIN staged_data # {}
                   THEN save_folder_tags(L, T, rows, SRC, profile_name).tags
                   ELSE T
             images == get_images(F, D, SRC, TRUE, {})
             L1 == restore_folder_tags(clear_staging_area(L), T1, SRC, images,
                                       profile_name).ledger
         IN [ledger |-> L1, tags |-> T1, all_images |-> images, loaded |-> TRUE]

Init ==
    /\ \E pre \in AppPreSets : fs = OnDisk(SourceFiles \cup AdjFiles \cup pre)
    /\ dirs = {SRC, SUB, ADJ, OUT, OUTCAT("control")}
    /\ ledger = EmptyFn /\ folder_tags = EmptyFn /\ processed_log = EmptyFn
    /\ undo_stack = <<>> /\ staged_data = EmptyFn /\ all_images = <<>>
    /\ active_cat = "control" /\ next_index = 1
    /\ profile_name = "Default" /\ output_dir = OUT
    /\ profile_categories = [p \in Profiles |-> IF p = "Default" THEN SeedCategories ELSE {}]
    /\ pair_adjacent_data = <<>> /\ pair_time_window = DefaultWindow
    /\ pair_current_idx = 1 /\ pair_matches = <<>> /\ pair_selected_match = NoPath
    /\ pair_index = 1
    /\ pair_main_category = "control" /\ pair_adj_category = "control"
    /\ last = [op |-> "init", path |-> NoPath, before |-> EmptyFn, wrote |-> {}]
    /\ steps = 0

\* what `last` records of a handler: the path it was called on, the ledger
\* before it and the staged files a commit wrote
Did(op, path, wrote) ==
    /\ last' = [op |-> op, path |-> path, before |-> ledger, wrote |-> wrote]
    /\ steps < MaxOps
    /\ steps' = steps + 1

\* the folder is opened: load_images()
LoadImages ==
    \E rows \in RowOrders(ledger) :
        \E r \in {load_images(fs, dirs, ledger, folder_tags, rows)} :
           /\ ledger' = r.ledger /\ folder_tags' = r.tags
           /\ all_images' = r.all_images
           /\ staged_data' = IF r.loaded THEN get_staged_data(r.ledger) ELSE staged_data
           /\ Did("load_images", NoPath, {})
           /\ UNCHANGED <<fs, dirs, processed_log, undo_stack, active_cat, next_index,
                          profile_name, output_dir, profile_categories, pairVars>>

\* the names staged for the active category, read from state.staged_data
StagedNames ==
    {staged_data[q].name : q \in {x \in DOMAIN staged_data : staged_data[x].cat = active_cat}}

\* the name action_tag records for img_path at index idx: on a conflict one
\* suffix, len(staged_names) + 1, is applied
TagName(img_path, idx) ==
    LET name == FormatName(active_cat, idx, splitext_ext(basename(img_path)))
        final_path == Path(join(output_dir, active_cat), name)
    IN IF name \in StagedNames \/ exists(fs, final_path)
       THEN WithSuffix(name, Cardinality(StagedNames) + 1)
       ELSE name

\* the entry action_tag appends to the undo stack; manual_idx = 0 stands
\* for None
TagEntry(img_path, manual_idx) ==
    [action |-> "tag", path |-> img_path, category |-> active_cat,
     name |-> TagName(img_path, IF manual_idx # 0 THEN manual_idx ELSE next_index)]

\* action_tag(img_path, manual_idx)
action_tag(img_path, manual_idx) ==
    LET idx == IF manual_idx # 0 THEN manual_idx ELSE next_index
        name == TagEntry(img_path, manual_idx).name
    IN /\ idx <= MaxIdx
       /\ undo_stack' = PushUndo(undo_stack, TagEntry(img_path, manual_idx))
       /\ ledger' = stage_image(ledger, img_path, active_cat, name)
       /\ next_index' = IF manual_idx = 0 THEN idx + 1 ELSE next_index
       /\ staged_data' = get_staged_data(ledger')
       /\ UNCHANGED <<fs, dirs, folder_tags, processed_log, all_images, active_cat,
                      profile_name, output_dir, profile_categories, pairVars>>

ActionTag ==
    \E img_path \in Range(all_images), manual_idx \in 0..MaxIdx :
        action_tag(img_path, manual_idx) /\ Did("action_tag", img_path, {})

\* an untag recorded with the action of a tag
UntagEntryAsTag(img_path) ==
    [action |-> "tag", path |-> img_path, category |-> staged_data[img_path].cat,
     name |-> staged_data[img_path].name]

\* the entry action_untag appends for a path of state.staged_data
UntagEntry(img_path) ==
    [action |-> "untag", path |-> img_path, category |-> staged_data[img_path].cat,
     name |-> staged_data[img_path].name]

\* action_untag(img_path)
action_untag(img_path) ==
    /\ undo_stack' = IF img_path \in DOMAIN staged_data
                     THEN PushUndo(undo_stack, UntagEntry(img_path))
                     ELSE undo_stack
    /\ ledger' = clear_staged_item(ledger, img_path)
    /\ staged_data' = get_staged_data(ledger')
    /\ UNCHANGED <<fs, dirs, folder_tags, processed_log, all_images, active_cat,
                   next_index, profile_name, output_dir, profile_categories, pairVars>>

ActionUntag ==
    \E img_path \in Range(all_images) :
        action_untag(img_path) /\ Did("action_untag", img_path, {})

\* os.path.join(os.path.dirname(file_path), "_DELETED", os.path.basename(file_path))
TrashPath(file_path) == Path(join(dirname(file_path), "_DELETED"), basename(file_path))

\* SorterEngine.delete_to_trash(file_path): the disk afterwards
delete_to_trash(F, D, file_path) ==
    IF ~exists(F, file_path) THEN [fs |-> F, dirs |-> D]
    ELSE [fs |-> move(F, file_path, TrashPath(file_path)),
          dirs |-> makedirs(D, join(dirname(file_path), "_DELETED"))]

\* the entry action_delete appends: {"action": "delete", "path": img_path}
DeleteEntry(img_path) ==
    [action |-> "delete", path |-> img_path, category |-> "", name |-> NoPath.name]

\* action_delete(img_path): push, delete_to_trash, load_images()
action_delete(img_path) ==
    /\ undo_stack' = PushUndo(undo_stack, DeleteEntry(img_path))
    /\ \E d \in {delete_to_trash(fs, dirs, img_path)}, rows \in RowOrders(ledger) :
          \E li \in {load_images(d.fs, d.dirs, ledger, folder_tags, rows)} :
             /\ fs' = d.fs /\ dirs' = d.dirs
             /\ ledger' = li.ledger /\ folder_tags' = li.tags
             /\ all_images' = li.all_images
             /\ staged_data' = IF li.loaded THEN get_staged_data(li.ledger) ELSE staged_data
    /\ UNCHANGED <<processed_log, active_cat, next_index, profile_name, output_dir,
                   profile_categories, pairVars>>

ActionDelete ==
    \E img_path \in Range(all_images) :
        action_delete(img_path) /\ Did("action_delete", img_path, {})

\* the ui.notify of action_undo: what it reports for the entry it pops
UndoNotice(F, entry) ==
    IF entry.action = "tag" THEN "Undid tag"
    ELSE IF entry.action = "untag" THEN "Undid untag"
    ELSE IF exists(F, TrashPath(entry.path)) THEN "Restored"
    ELSE "Cannot restore - file not in trash"

\* action_undo(): pop the stack; a tag is undone by clear_staged_item, an
\* untag by stage_image with the recorded category and name, a delete by
\* moving the file back from the trash when it is there
action_undo ==
    /\ undo_stack # <<>>
    /\ LET entry == undo_stack[Len(undo_stack)]
       IN /\ undo_stack' = SubSeq(undo_stack, 1, Len(undo_stack) - 1)
          /\ ledger' = IF entry.action = "tag"
                       THEN clear_staged_item(ledger, entry.path)
                       ELSE IF entry.action = "untag"
                       THEN stage_image(ledger, entry.path, entry.category, entry.name)
                       ELSE ledger
          /\ fs' = IF entry.action = "delete" /\ exists(fs, TrashPath(entry.path))
                   THEN move(fs, TrashPath(entry.path), entry.path)
                   ELSE fs
          /\ staged_data' = get_staged_data(ledger')
    /\ UNCHANGED <<dirs, folder_tags, processed_log, all_images, active_cat,
                   next_index, profile_name, output_dir, profile_categories, pairVars>>

ActionUndo ==
    action_undo /\ Did("action_undo", undo_stack[Len(undo_stack)].path, {})

\* LOAD ADJACENT button in the application: load_adjacent_folder(), pair_navigate(0)
PairLoadAdjacent ==
    /\ pair_adjacent_data' = AdjacentData(fs, dirs, ADJ, SRC)
    /\ UNCHANGED pair_time_window
    /\ pair_navigate(0)
    /\ Did("load_adjacent_folder", NoPath, {})
    /\ UNCHANGED <<fs, dirs, storeVars, appVars, pair_index, pair_main_category,
                   pair_adj_category>>

\* arrow keys of the pairing view; pair_navigate indexes all_images
PairNavigate ==
    \E direction \in {-1, 1} :
        /\ UNCHANGED <<pair_adjacent_data, pair_time_window>>
        /\ pair_navigate(direction)
        /\ Did("pair_navigate", NoPath, {})
        /\ UNCHANGED <<fs, dirs, storeVars, appVars, pair_index, pair_main_category,
                       pair_adj_category>>

\* pair_tag_both(): the current image under pair_main_category and the
\* selected match under pair_adj_category, both at pair_index
PairTagBoth ==
    /\ all_images # <<>>
    /\ pair_current_idx <= Len(all_images)
    /\ pair_index <= MaxIdx
    /\ LET current_img == all_images[pair_current_idx]
           name_main == FormatName(pair_main_category, pair_index,
                                   splitext_ext(basename(current_img)))
           L1 == stage_image(ledger, current_img, pair_main_category, name_main)
       IN /\ ledger' = IF pair_selected_match # NoPath
                       THEN stage_image(L1, pair_selected_match, pair_adj_category,
                                        FormatName(pair_adj_category, pair_index,
                                            splitext_ext(basename(pair_selected_match))))
                       ELSE L1
          /\ Did("pair_tag_both", current_img, {})
    /\ pair_index' = pair_index + 1
    /\ staged_data' = get_staged_data(ledger')
    /\ UNCHANGED <<fs, dirs, folder_tags, processed_log, undo_stack, all_images,
                   active_cat, next_index, profile_name, output_dir, profile_categories,
                   pair_adjacent_data, pair_time_window, pair_current_idx, pair_matches,
                   pair_selected_match, pair_main_category, pair_adj_category>>

WroteSources(r) == {r.wrote[i][1] : i \in 1..Len(r.wrote)}

\* action_apply_page(): commit_batch on the current page, then load_images()
ActionApplyPage ==
    \E batch \in Pages(all_images) \ {<<>>}, cleanup_mode \in CleanupModes,
       operation \in Operations :
        \E r \in {commit_batch(fs, dirs, ledger, processed_log, batch, output_dir,
                              cleanup_mode, operation, {})} :
          \E rows \in RowOrders(r.ledger) :
            \E li \in {load_images(r.fs, r.dirs, r.ledger, folder_tags, rows)} :
               /\ fs' = r.fs /\ dirs' = r.dirs /\ processed_log' = r.log
               /\ ledger' = li.ledger /\ folder_tags' = li.tags
               /\ all_images' = li.all_images
               /\ staged_data' = IF li.loaded THEN get_staged_data(li.ledger) ELSE staged_data
               /\ Did("action_apply_page", NoPath, WroteSources(r))
               /\ UNCHANGED <<undo_stack, active_cat, next_index, profile_name, output_dir,
                              profile_categories, pairVars>>

\* action_apply_global(): commit_global, then load_images()
ActionApplyGlobal ==
    \E cleanup_mode \in CleanupModes, operation \in Operations, rows \in RowOrders(ledger) :
        \E r \in {commit_global(fs, dirs, ledger, folder_tags, processed_log, rows,
                               output_dir, cleanup_mode, operation, SRC, profile_name, {})} :
          \E li \in {load_images(r.fs, r.dirs, r.ledger, r.tags, <<>>)} :
           /\ fs' = r.fs /\ dirs' = r.dirs /\ processed_log' = r.log
           /\ ledger' = li.ledger /\ folder_tags' = li.tags
           /\ all_images' = li.all_images
           /\ staged_data' = IF li.loaded THEN get_staged_data(li.ledger) ELSE staged_data
           /\ Did("action_apply_global", NoPath, WroteSources(r))
           /\ UNCHANGED <<undo_stack, active_cat, next_index, profile_name, output_dir,
                          profile_categories, pairVars>>

\* a category button of the sidebar: active_cat = c, refresh_staged_info()
SelectCategory ==
    \E c \in get_categories(profile_categories, profile_name) :
        /\ c # active_cat
        /\ active_cat' = c
        /\ staged_data' = get_staged_data(ledger)
        /\ Did("select_category", NoPath, {})
        /\ UNCHANGED <<fs, dirs, storeVars, undo_stack, all_images, next_index,
                       profile_name, output_dir, profile_categories, pairVars>>

\* add_category(): SorterEngine.add_category(value, profile), active_cat = value
AddCategory ==
    \E value \in Categories :
        /\ profile_categories' =
              [profile_categories EXCEPT ![profile_name] =
                  get_categories(profile_categories, profile_name) \cup {value}]
        /\ active_cat' = value
        /\ staged_data' = get_staged_data(ledger)
        /\ Did("add_category", NoPath, {})
        /\ UNCHANGED <<fs, dirs, storeVars, undo_stack, all_images, next_index,
                       profile_name, output_dir, pairVars>>

\* SorterEngine.delete_category(name, profile) on the ledger:
\* DELETE FROM staging_area WHERE target_category = ?
delete_category(L, name) == Restrict(L, {p \in DOMAIN L : L[p].cat # name})

\* DELETE CATEGORY button: delete_category(active_cat, profile), refresh and
\* render the sidebar (get_categories puts active_cat back into the list)
DeleteCategory ==
    LET left == get_categories(profile_categories, profile_name) \ {active_cat}
        cats == IF left = {} THEN SeedCategories ELSE left
    IN /\ profile_categories' = [profile_categories EXCEPT ![profile_name] = cats]
       /\ ledger' = delete_category(ledger, active_cat)
       /\ active_cat' = IF active_cat \in cats THEN active_cat ELSE FirstCategory(cats)
       /\ staged_data' = get_staged_data(ledger')
       /\ Did("delete_category", NoPath, {})
       /\ UNCHANGED <<fs, dirs, folder_tags, processed_log, undo_stack, all_images,
                      next_index, profile_name, output_dir, pairVars>>

\* change_profile(e): save the tags, switch, clear the ledger and the images
ChangeProfile ==
    \E value \in Profiles \ {profile_name}, rows \in RowOrders(ledger) :
        LET cats == get_categories(profile_categories, value)
        IN /\ folder_tags' = IF all_images # <<>> /\ DOMAIN staged_data # {}
                             THEN save_folder_tags(ledger, folder_tags, rows, SRC,
                                                   profile_name).tags
                             ELSE folder_tags
           /\ profile_name' = value
           /\ profile_categories' = [profile_categories EXCEPT ![value] = cats]
           /\ pair_main_category' = "control" /\ pair_adj_category' = "control"
           /\ pair_time_window' = DefaultWindow
           /\ active_cat' = FirstCategory(cats)
           /\ ledger' = clear_staging_area(ledger)
           /\ all_images' = <<>>
           /\ staged_data' = EmptyFn
           /\ Did("change_profile", NoPath, {})
           /\ UNCHANGED <<fs, dirs, processed_log, undo_stack, next_index, output_dir,
                          pair_adjacent_data, pair_current_idx, pair_matches,
                          pair_selected_match, pair_index>>

Next ==
    \/ LoadImages \/ ActionTag \/ ActionUntag \/ ActionDelete \/ ActionUndo
    \/ PairLoadAdjacent \/ PairNavigate \/ PairTagBoth
    \/ ActionApplyPage \/ ActionApplyGlobal
    \/ SelectCategory \/ AddCategory \/ DeleteCategory \/ ChangeProfile
Spec == Init /\ [][Next]_vars

\* C4: the name action_tag records is not the name of another staged entry
\* of the same category and not the name of a file already present at
\* output_dir/<category>.
C4_TagNameIsFree ==
    last.op = "action_tag" =>
        /\ \A q \in DOMAIN ledger \ {last.path} :
              ledger[q].cat = ledger[last.path].cat
                  => ledger[q].name # ledger[last.path].name
        /\ ~exists(fs, Path(join(output_dir, ledger[last.path].cat),
                            ledger[last.path].name))

\* C5: no two entries of the ledger that target the same category carry the
\* same name, in every state a commit can start from.
C5_NamesUniquePerCategory ==
    \A p, q \in DOMAIN ledger :
        (p # q /\ ledger[p].cat = ledger[q].cat) => ledger[p].name # ledger[q].name

\* C10: an entry leaves the ledger only through an unstage of its path
\* (untag, undo) or through a commit that copied or moved its file.
C10_EntriesLeaveByUnstageOrCommit ==
    \A p \in DOMAIN last.before \ DOMAIN ledger :
        \/ last.op \in {"action_untag", "action_undo"} /\ last.path = p
        \/ last.op \in {"action_apply_page", "action_apply_global"} /\ p \in last.wrote

\* C11: after action_apply_global no path whose file the commit copied or
\* moved has an entry in the ledger, under Copy as under Move.
C11_ProcessedEntriesGone ==
    last.op = "action_apply_global" =>
        \A p \in last.wrote : p \notin DOMAIN ledger

\* ------------------------------------------------ specification SpecReload
\* Tagging and untagging in one folder with reloads in between: the files on
\* disk never change.
NextReload == LoadImages \/ ActionTag \/ ActionUntag
SpecReload == Init /\ [][NextReload]_vars

\* C12: after a reload that follows tag and untag operations the ledger has
\* entries for exactly the paths staged just before the reload, each with the
\* same category and index.
C12_ReloadKeepsStaged ==
    last.op = "load_images" =>
        /\ DOMAIN ledger = DOMAIN last.before
        /\ \A p \in DOMAIN ledger \cap DOMAIN last.before :
              /\ ledger[p].cat = last.before[p].cat
              /\ tag_index(ledger[p].name) = tag_index(last.before[p].name)

\* ------------------------------------------------- specification SpecTable
\* The table staging_area row by row, beside the ledger the other
\* specifications use: every statement the engine runs on the table is applied
\* to the set of rows kept in `last`.
MaxCalls == 3

\* one row (original_path, target_category, new_name, is_marked)
Row(original_path, category, new_name, marked) ==
    [original_path |-> original_path, target_category |-> category,
     new_name |-> new_name, is_marked |-> marked]
\* SELECT * FROM staging_area as get_staged_data reads it
Rows(L) == {Row(p, L[p].cat, L[p].name, L[p].marked) : p \in DOMAIN L}

\* an INSERT into a table without the key on original_path
insert(rows, row) == rows \cup {row}
\* INSERT OR REPLACE INTO staging_area: original_path is the PRIMARY KEY, the
\* row that holds the same path is replaced
insert_or_replace(rows, row) ==
    {r \in rows : r.original_path # row.original_path} \cup {row}
\* DELETE FROM staging_area WHERE original_path = ?
delete_row(rows, original_path) == {r \in rows : r.original_path # original_path}

\* the restore loop of restore_folder_tags over the saved tags in the order
\* `keys`, statement by statement
RECURSIVE restore_rows(_, _, _, _)
restore_rows(rows, T, keys, images) ==
    IF keys = <<>> THEN rows
    ELSE LET filename == Head(keys)[3]
             tag_info == T[Head(keys)]
             full_path == FilenameToPath(images, filename)
             rows1 ==
                 IF /\ \E i \in 1..Len(images) : basename(images[i]) = filename
                    /\ ~\E r \in rows : r.original_path = full_path
                 THEN insert_or_replace(rows,
                          Row(full_path, tag_info.cat,
                              FormatName(tag_info.cat, tag_info.index,
                                         splitext_ext(filename)), 1))
                 ELSE rows
         IN restore_rows(rows1, T, Tail(keys), images)

\* the tags a save of the whole source tree under "control" leaves behind
SavedTags ==
    LET L == LedgerOf([p \in SourceFiles |-> [cat |-> "control", idx |-> 1]])
    IN save_folder_tags(L, EmptyFn, sorted(SourceFiles), SRC, "").tags

InitTable ==
    /\ \E present \in {SourceFiles, SourceFiles \ {SrcFile(2)}} : fs = OnDisk(present)
    /\ dirs = {SRC, SUB, OUT}
    /\ ledger = EmptyFn
    /\ folder_tags \in {EmptyFn, SavedTags}
    /\ processed_log = EmptyFn
    /\ output_dir = OUT
    /\ undo_stack = <<>> /\ staged_data = EmptyFn
    /\ all_images = get_images(fs, dirs, SRC, TRUE, {})
    /\ active_cat = "control" /\ next_index = 1 /\ profile_name = "Default"
    /\ profile_categories = [p \in Profiles |-> SeedCategories]
    /\ pair_adjacent_data = <<>> /\ pair_time_window = 1 /\ pair_current_idx = 1
    /\ pair_matches = <<>> /\ pair_selected_match = NoPath /\ pair_index = 1
    /\ pair_main_category = "control" /\ pair_adj_category = "control"
    /\ last = [op |-> "init", rows |-> {}, before |-> {}, scan |-> <<>>]
    /\ steps = 0

\* what `last` records of a call: the rows after it, the rows before it and
\* the images a restore was given
TableDid(op, rows, scan) ==
    /\ last' = [op |-> op, rows |-> rows, before |-> last.rows, scan |-> scan]
    /\ steps < MaxCalls
    /\ steps' = steps + 1
    /\ UNCHANGED <<appVars, pairVars>>

\* stage_image on a path with or without a row: a stage, a re-stage, the
\* undo of an untag
TableStage ==
    \E original_path \in SourceFiles, category \in Categories, idx \in {1, MaxIdx} :
        LET new_name == FormatName(category, idx, splitext_ext(basename(original_path)))
        IN /\ ledger' = stage_image(ledger, original_path, category, new_name)
           /\ TableDid("stage_image",
                       insert_or_replace(last.rows,
                                         Row(original_path, category, new_name, 1)), <<>>)
           /\ UNCHANGED <<fs, dirs, folder_tags, processed_log>>

\* clear_staged_item: an unstage, the undo of a tag
TableUnstage ==
    \E original_path \in SourceFiles :
        /\ ledger' = clear_staged_item(ledger, original_path)
        /\ TableDid("clear_staged_item", delete_row(last.rows, original_path), <<>>)
        /\ UNCHANGED <<fs, dirs, folder_tags, processed_log>>

\* clear_staging_area: DELETE FROM staging_area
TableClear ==
    /\ ledger' = clear_staging_area(ledger)
    /\ TableDid("clear_staging_area", {}, <<>>)
    /\ UNCHANGED <<fs, dirs, folder_tags, processed_log>>

\* commit_batch: one DELETE ... WHERE original_path = ? per file it wrote
TableCommitBatch ==
    \E file_list \in Pages(all_images), operation \in Operations :
        \E r \in {commit_batch(fs, dirs, ledger, processed_log, file_list, output_dir,
                              "Keep", operation, {})} :
           /\ fs' = r.fs /\ dirs' = r.dirs /\ ledger' = r.ledger
           /\ processed_log' = r.log /\ UNCHANGED folder_tags
           /\ TableDid("commit_batch",
                       {row \in last.rows : row.original_path \notin WroteSources(r)}, <<>>)

\* commit_global: DELETE FROM staging_area at its end
TableCommitGlobal ==
    \E operation \in Operations, rows \in RowOrders(ledger) :
        \E r \in {commit_global(fs, dirs, ledger, folder_tags, processed_log, rows,
                               output_dir, "Keep", operation, SRC, profile_name, {})} :
           /\ fs' = r.fs /\ dirs' = r.dirs /\ ledger' = r.ledger
           /\ processed_log' = r.log /\ folder_tags' = r.tags
           /\ TableDid("commit_global", {}, <<>>)

\* restore_folder_tags(folder_path, images, profile) with the images of a
\* fresh recursive scan of the folder
TableRestore ==
    \E folder_path \in {SRC, SUB} :
        LET images == get_images(fs, dirs, folder_path, TRUE, {})
            saved == {k \in DOMAIN folder_tags :
                         k[1] = ProfileOrDefault(profile_name) /\ k[2] = folder_path}
        IN \E keys \in Orders(saved) :
              /\ ledger' = restore_folder_tags(ledger, folder_tags, folder_path, images,
                                               profile_name).ledger
              /\ TableDid("restore_folder_tags",
                          restore_rows(last.rows, folder_tags, keys, images), images)
              /\ UNCHANGED <<fs, dirs, folder_tags, processed_log>>

NextTable ==
    \/ TableStage \/ TableUnstage \/ TableClear
    \/ TableCommitBatch \/ TableCommitGlobal \/ TableRestore
SpecTable == InitTable /\ [][NextTable]_vars

\* the rows a restore has just inserted
RestoredRows == last.rows \ last.before

\* C13: the table holds at most one row per original_path after every stage,
\* re-stage, unstage, commit and restore, and its rows are the entries of the
\* ledger; a restore inserts rows only for files of the scan it was given, at
\* most one per file.
C13_OneEntryPerPath ==
    /\ \A r1, r2 \in last.rows : r1.original_path = r2.original_path => r1 = r2
    /\ last.rows = Rows(ledger)
    /\ last.op = "restore_folder_tags" =>
          /\ \A r \in RestoredRows : r.original_path \in Range(last.scan)
          /\ \A f \in Range(last.scan) :
                Cardinality({r \in last.rows : r.original_path = f}) <= 1

\* a restore beside a re-staged entry: it inserted a row, left the staged
\* row alone, and a saved tag names a file that the scan does not list
C13_Witness ==
    /\ last.op = "restore_folder_tags"
    /\ RestoredRows # {}
    /\ last.before # {}
    /\ \E k \in DOMAIN folder_tags :
          \A i \in 1..Len(last.scan) : basename(last.scan[i]) # k[3]

\* ------------------------------------------------- specification SpecStack
\* Tag, untag, delete and undo on a folder of one image, from an empty undo
\* stack and from the stacks that tagging the image at index 1 and untagging
\* it again, UndoLimit / 2 - 1 and UndoLimit / 2 times, leave behind.
MaxStackOps == 4

Prefill(n) ==
    [i \in 1..n |->
        [action |-> IF i % 2 = 1 THEN "tag" ELSE "untag", path |-> SrcFile(1),
         category |-> "control", name |-> FormatName("control", 1, JPG)]]

InitStack ==
    /\ fs = OnDisk({SrcFile(1)})
    /\ dirs = {SRC, OUT}
    /\ ledger = EmptyFn /\ folder_tags = EmptyFn /\ processed_log = EmptyFn
    /\ \E n \in {0, UndoLimit - 2, UndoLimit} :
          /\ undo_stack = Prefill(n)
          /\ last = [op |-> "init", pushed |-> Prefill(n), evicted |-> 0,
                     popped |-> DeleteEntry(NoPath), newest |-> DeleteEntry(NoPath)]
    /\ staged_data = EmptyFn
    /\ all_images = get_images(fs, dirs, SRC, TRUE, {})
    /\ active_cat = "control" /\ next_index = 1
    /\ profile_name = "Default" /\ output_dir = OUT
    /\ profile_categories = [p \in Profiles |-> SeedCategories]
    /\ pair_adjacent_data = <<>> /\ pair_time_window = DefaultWindow
    /\ pair_current_idx = 1 /\ pair_matches = <<>> /\ pair_selected_match = NoPath
    /\ pair_index = 1
    /\ pair_main_category = "control" /\ pair_adj_category = "control"
    /\ steps = 0

\* what `last` records of a handler that appended `entry`: the actions
\* appended and not undone so far, oldest first, and how many appends found
\* the stack full
Pushed(op, entry) ==
    /\ last' = [op |-> op, pushed |-> Append(last.pushed, entry),
                evicted |-> IF Len(undo_stack) >= UndoLimit
                            THEN last.evicted + 1 ELSE last.evicted,
                popped |-> DeleteEntry(NoPath), newest |-> DeleteEntry(NoPath)]
    /\ steps < MaxStackOps
    /\ steps' = steps + 1

\* ... of a handler that appended nothing
NotPushed(op) ==
    /\ last' = [last EXCEPT !.op = op, !.popped = DeleteEntry(NoPath),
                            !.newest = DeleteEntry(NoPath)]
    /\ steps < MaxStackOps
    /\ steps' = steps + 1

StackTag ==
    \E img_path \in Range(all_images), manual_idx \in 0..MaxIdx :
        action_tag(img_path, manual_idx)
        /\ Pushed("action_tag", TagEntry(img_path, manual_idx))

StackUntag ==
    \E img_path \in Range(all_images) :
        /\ action_untag(img_path)
        /\ IF img_path \in DOMAIN staged_data
           THEN Pushed("action_untag", UntagEntry(img_path))
           ELSE NotPushed("action_untag")

StackDelete ==
    \E img_path \in Range(all_images) :
        action_delete(img_path) /\ Pushed("action_delete", DeleteEntry(img_path))

\* action_undo: `last` keeps the entry it popped and the newest action that
\* was appended and not undone
StackUndo ==
    /\ action_undo
    /\ last' = [op |-> "action_undo",
                pushed |-> SubSeq(last.pushed, 1, Len(last.pushed) - 1),
                evicted |-> last.evicted,
                popped |-> undo_stack[Len(undo_stack)],
                newest |-> last.pushed[Len(last.pushed)]]
    /\ steps < MaxStackOps
    /\ steps' = steps + 1

\* the folder is opened again: load_images()
StackLoad ==
    /\ \E rows \in RowOrders(ledger) :
        \E r \in {load_images(fs, dirs, ledger, folder_tags, rows)} :
           /\ ledger' = r.ledger /\ folder_tags' = r.tags
           /\ all_images' = r.all_images
           /\ staged_data' = IF r.loaded THEN get_staged_data(r.ledger) ELSE staged_data
    /\ NotPushed("load_images")
    /\ UNCHANGED <<fs, dirs, processed_log, undo_stack, active_cat, next_index,
                   profile_name, output_dir, profile_categories, pairVars>>

NextStack == StackTag \/ StackUntag \/ StackDelete \/ StackUndo \/ StackLoad
SpecStack == InitStack /\ [][NextStack]_vars

\* C17: the undo stack never holds more than UndoLimit actions; it holds the
\* most recently appended actions that were not undone, in the order they
\* were appended, and only appends onto a full stack dropped one (the
\* oldest); action_undo pops the most recent of them.
C17_UndoStackBounded ==
    /\ Len(undo_stack) <= UndoLimit
    /\ Len(undo_stack) + last.evicted = Len(last.pushed)
    /\ undo_stack = SubSeq(last.pushed, last.evicted + 1, Len(last.pushed))
    /\ last.op = "action_undo" => last.popped = last.newest

\* an undo after an append that evicted the oldest action of a full stack
C17_Witness ==
    /\ last.op = "action_undo"
    /\ last.evicted > 0
    /\ Len(undo_stack) = UndoLimit - 1
    /\ last.popped.action = "delete"

\* -------------------------------------------------- specification SpecUndo
\* Tag, untag and delete each followed by undo, in a folder that was loaded
\* before one of its files went missing, with or without a file of the same
\* name left in the trash by an earlier session, from an empty ledger and
\* from a ledger with two entries.
MaxUndoOps == 3

TwoStaged ==
    LedgerOf((SrcFile(1) :> [cat |-> "control", idx |-> 1]) @@
             (SubFile(1) :> [cat |-> "Action", idx |-> 2]))

InitUndo ==
    /\ \E present \in {SourceFiles, SourceFiles \ {SrcFile(2)}},
          trash \in {{}, {TrashPath(SrcFile(2))}} :
          /\ fs = OnDisk(present \cup trash)
          /\ dirs = {SRC, SUB, OUT} \cup {t.dir : t \in trash}
    /\ ledger \in {EmptyFn, TwoStaged}
    /\ folder_tags = EmptyFn /\ processed_log = EmptyFn
    /\ undo_stack = <<>> /\ staged_data = get_staged_data(ledger)
    /\ all_images = get_images(fs @@ OnDisk(SourceFiles), dirs, SRC, TRUE, {})
    /\ active_cat = "control" /\ next_index = 1
    /\ profile_name = "Default" /\ output_dir = OUT
    /\ profile_categories = [p \in Profiles |-> SeedCategories]
    /\ pair_adjacent_data = <<>> /\ pair_time_window = DefaultWindow
    /\ pair_current_idx = 1 /\ pair_matches = <<>> /\ pair_selected_match = NoPath
    /\ pair_index = 1
    /\ pair_main_category = "control" /\ pair_adj_category = "control"
    /\ last = [op |-> "init", path |-> NoPath, before |-> EmptyFn, fs_before |-> EmptyFn,
               prev_op |-> "init", prev_path |-> NoPath, prev_before |-> EmptyFn,
               prev_fs |-> EmptyFn, notice |-> ""]
    /\ steps = 0

\* what `last` records of a handler: its path, the ledger and the disk
\* before it, the same of the handler that ran just before it, and what an
\* undo reported
UndoDid(op, path, notice) ==
    /\ last' = [op |-> op, path |-> path, before |-> ledger, fs_before |-> fs,
                prev_op |-> last.op, prev_path |-> last.path,
                prev_before |-> last.before, prev_fs |-> last.fs_before,
                notice |-> notice]
    /\ steps < MaxUndoOps
    /\ steps' = steps + 1

TagStep ==
    \E img_path \in Range(all_images), manual_idx \in {0, MaxIdx} :
        action_tag(img_path, manual_idx) /\ UndoDid("action_tag", img_path, "")

UntagStep ==
    \E img_path \in Range(all_images) :
        action_untag(img_path) /\ UndoDid("action_untag", img_path, "")

DeleteStep ==
    \E img_path \in Range(all_images) :
        action_delete(img_path) /\ UndoDid("action_delete", img_path, "")

UndoStep ==
    /\ action_undo
    /\ UndoDid("action_undo", undo_stack[Len(undo_stack)].path,
               UndoNotice(fs, undo_stack[Len(undo_stack)]))

NextUndo == TagStep \/ UntagStep \/ DeleteStep \/ UndoStep
SpecUndo == InitUndo /\ [][NextUndo]_vars

\* action_undo has just run, directly after the handler `op`
UndoneAfter(op) == last.op = "action_undo" /\ last.prev_op = op

\* C18: action_untag(p) on a staged path directly followed by action_undo
\* leaves the ledger equal to the ledger before the untag.
C18_UntagUndoRestores ==
    (UndoneAfter("action_untag") /\ last.prev_path \in DOMAIN last.prev_before) =>
        ledger = last.prev_before

\* an untag of one of two staged paths, then undone
C18_Witness ==
    /\ UndoneAfter("action_untag")
    /\ last.prev_path \in DOMAIN last.prev_before
    /\ last.prev_path \notin DOMAIN last.before
    /\ Cardinality(DOMAIN ledger) >= 2

\* C19 as stated: action_tag(p) directly followed by action_undo leaves the
\* ledger equal to the ledger before the tag, whatever that ledger was.
C19_TagUndoAnyLedger ==
    UndoneAfter("action_tag") => ledger = last.prev_before

\* C19 amended: the tag and its undo leave p without an entry and every other
\* entry as it was; the ledger is the one before the tag when p had no entry
\* then.
C19_TagUndoUnstaged ==
    UndoneAfter("action_tag") =>
        /\ last.prev_path \notin DOMAIN ledger
        /\ ledger = Without(last.prev_before, last.prev_path)
        /\ last.prev_path \notin DOMAIN last.prev_before => ledger = last.prev_before

\* a tag of an unstaged path beside two staged ones, then undone
C19_Witness ==
    /\ UndoneAfter("action_tag")
    /\ last.prev_path \notin DOMAIN last.prev_before
    /\ last.prev_path \in DOMAIN last.before
    /\ Cardinality(DOMAIN ledger) >= 2

\* C20: action_delete(p) directly followed by action_undo puts the file back
\* at p with its content and leaves none in the trash; when the delete found
\* no file at p, so that none of its files is in the trash, the undo reports
\* that it cannot restore and changes no file.
C20_DeleteUndoRestores ==
    UndoneAfter("action_delete") =>
        IF exists(last.prev_fs, last.prev_path)
        THEN /\ exists(fs, last.prev_path)
             /\ fs[last.prev_path] = last.prev_fs[last.prev_path]
             /\ ~exists(fs, TrashPath(last.prev_path))
        ELSE /\ last.notice = "Cannot restore - file not in trash"
             /\ fs = last.fs_before

\* ------------------------------------------------- specification SpecIdMap
\* get_id_mapping on a folder of at most two files whose names are written
\* character by character: every stem of up to MaxNameLen characters over
\* 'i', 'd' and '_', with an image extension or not.
MaxNameLen == 4

IdChars == {"i", "d", "_"}
IdStems == UNION {[1..n -> IdChars] : n \in 1..MaxNameLen}
IdExts == {".jpg", ".txt"}
IdFileNames == [stem : IdStems, ext : IdExts]
IdFolders == {{}} \cup {{a, b} : a, b \in IdFileNames}

\* the code points that order the characters in Python's string comparison
CharRank(c) ==
    CASE c = "." -> 46 [] c = "_" -> 95 [] c = "d" -> 100 [] c = "i" -> 105
      [] c = "j" -> 106 [] c = "t" -> 116 [] OTHER -> 0
RECURSIVE CharKey(_)
CharKey(w) == IF w = <<>> THEN <<>> ELSE <<CharRank(Head(w))>> \o CharKey(Tail(w))
\* the key of a file name: its stem, the dot, the first letter of the extension
IdKey(f) == CharKey(f.stem) \o <<CharRank("."), CharRank(IF f.ext = ".jpg" THEN "j" ELSE "t")>>
RECURSIVE IdSorted(_)
IdSorted(S) ==
    IF S = {} THEN <<>>
    ELSE LET m == CHOOSE x \in S : \A y \in S \ {x} : SeqLess(IdKey(x.name), IdKey(y.name))
         IN <<m>> \o IdSorted(S \ {m})

\* f.lower().endswith(exts)
IsImage(f) == f.ext = ".jpg"
\* SorterEngine.get_images(path, recursive=False): os.listdir, the extension
\* filter, sorted
get_images_flat(F, D, path) ==
    IF ~isdir(D, path) THEN <<>>
    ELSE IdSorted({q \in DOMAIN F : q.dir = path /\ IsImage(q.name)})

\* fname.startswith("id")
StartsWithId(f) == Len(f.stem) >= 2 /\ f.stem[1] = "i" /\ f.stem[2] = "d"
\* "_" in fname
HasUnderscore(f) == \E i \in 1..Len(f.stem) : f.stem[i] = "_"
\* fname.rsplit('_', 1)[0]: the text before the last '_'
rsplit_first(f) ==
    LET k == CHOOSE i \in 1..Len(f.stem) :
                 f.stem[i] = "_" /\ \A j \in (i + 1)..Len(f.stem) : f.stem[j] # "_"
    IN SubSeq(f.stem, 1, k - 1)
\* fname.split('_')[0]: the text before the first '_'
RECURSIVE split_first(_)
split_first(f) ==
    IF f.stem = <<>> \/ Head(f.stem) = "_" THEN <<>>
    ELSE <<Head(f.stem)>> \o split_first([f EXCEPT !.stem = Tail(@)])

\* the loop of get_id_mapping over the images in order
RECURSIVE IdMappingLoop(_, _)
IdMappingLoop(mapping, images) ==
    IF images = <<>> THEN mapping
    ELSE LET fname == basename(Head(images))
             prefix == split_first(fname)
             m1 == IF StartsWithId(fname) /\ HasUnderscore(fname)
                   THEN [k \in DOMAIN mapping \cup {prefix} |->
                           IF k = prefix
                           THEN Append(IF prefix \in DOMAIN mapping
                                       THEN mapping[prefix] ELSE <<>>, fname)
                           ELSE mapping[k]]
                   ELSE mapping
         IN IdMappingLoop(m1, Tail(images))

\* SorterEngine.get_id_mapping(path) on disk F, D
get_id_mapping(F, D, path) == IdMappingLoop(EmptyFn, get_images_flat(F, D, path))

InitIdMap ==
    /\ \E folder \in IdFolders : fs = OnDisk({Path(SRC, f) : f \in folder})
    /\ dirs = {SRC}
    /\ ledger = EmptyFn /\ folder_tags = EmptyFn /\ processed_log = EmptyFn
    /\ last = [op |-> "init", mapping |-> EmptyFn]
    /\ LedgerDefaults

GetIdMapping ==
    /\ last.op = "init"
    /\ last' = [op |-> "get_id_mapping", mapping |-> get_id_mapping(fs, dirs, SRC)]
    /\ UNCHANGED <<fs, dirs, storeVars, appVars, pairVars, steps>>

NextIdMap == GetIdMapping
SpecIdMap == InitIdMap /\ [][NextIdMap]_vars

\* the image names of the folder that start with "id" and hold a '_'
IdNamed == {q.name : q \in {x \in DOMAIN fs : x.dir = SRC /\ IsImage(x.name)
                                               /\ StartsWithId(x.name)
                                               /\ HasUnderscore(x.name)}}
\* the token of such a name: its longest prefix without '_'
Token(f) ==
    LET n == CHOOSE k \in 0..Len(f.stem) :
                 /\ \A i \in 1..k : f.stem[i] # "_"
                 /\ k < Len(f.stem) => f.stem[k + 1] = "_"
    IN SubSeq(f.stem, 1, n)

MaxRaceOps == 4

RaceLedgers ==
    {EmptyFn, LedgerOf(SrcFile(1) :> [cat |-> "control", idx |-> 1])}

InitRace ==
    /\ fs = OnDisk(SourceFiles)
    /\ dirs = {SRC, SUB, OUT}
    /\ ledger \in RaceLedgers
    /\ folder_tags = EmptyFn /\ processed_log = EmptyFn
    /\ undo_stack = <<>> /\ staged_data = get_staged_data(ledger)
    /\ all_images = get_images(fs, dirs, SRC, TRUE, {})
    /\ active_cat = "control" /\ next_index = 1
    /\ profile_name = "Default" /\ output_dir = OUT
    /\ profile_categories = [p \in Profiles |-> SeedCategories]
    /\ pair_adjacent_data = <<>> /\ pair_time_window = DefaultWindow
    /\ pair_current_idx = 1 /\ pair_matches = <<>> /\ pair_selected_match = NoPath
    /\ pair_index = 1
    /\ pair_main_category = "control" /\ pair_adj_category = "control"
    /\ last = [op |-> "init", pc |-> "idle", data |-> EmptyFn, rows |-> <<>>,
               operation |-> "Copy", raced |-> {}, wrote |-> {}, log |-> EmptyFn]
    /\ steps = 0

RaceStep ==
    /\ steps < MaxRaceOps
    /\ steps' = steps + 1

\* the commit's connection is inside a write transaction: another
\* connection's INSERT waits for the lock and raises OperationalError
WriteLocked == last.pc = "written" /\ last.wrote # {}

\* action_tag on the interactive thread; `last` notes the paths staged while
\* a commit is under way
RaceTag ==
    /\ ~WriteLocked
    /\ last.pc # "done"
    /\ \E img_path \in Range(all_images), manual_idx \in {0, MaxIdx} :
          /\ action_tag(img_path, manual_idx)
          /\ last' = [last EXCEPT !.op = "action_tag",
                                  !.raced = IF last.pc = "idle" THEN @
                                            ELSE @ \cup {img_path}]
    /\ RaceStep

\* action_tag while the table is locked: the undo entry is appended, then
\* stage_image raises and nothing else of the handler runs
RaceTagLocked ==
    /\ WriteLocked
    /\ \E img_path \in Range(all_images), manual_idx \in {0, MaxIdx} :
          /\ (IF manual_idx # 0 THEN manual_idx ELSE next_index) <= MaxIdx
          /\ undo_stack' = PushUndo(undo_stack, TagEntry(img_path, manual_idx))
    /\ last' = [last EXCEPT !.op = "action_tag_locked"]
    /\ RaceStep
    /\ UNCHANGED <<fs, dirs, storeVars, staged_data, all_images, active_cat, next_index,
                   profile_name, output_dir, profile_categories, pairVars>>

\* commit_global up to its own connection: data = get_staged_data(),
\* save_folder_tags(source_root, profile)
RaceCommitRead ==
    /\ last.pc = "idle"
    /\ \E operation \in Operations, rows \in RowOrders(ledger) :
          /\ folder_tags' = save_folder_tags(ledger, folder_tags, rows, SRC,
                                             profile_name).tags
          /\ last' = [op |-> "commit_read", pc |-> "read",
                      data |-> get_staged_data(ledger), rows |-> rows,
                      operation |-> operation, raced |-> {}, wrote |-> {},
                      log |-> processed_log]
    /\ RaceStep
    /\ UNCHANGED <<fs, dirs, ledger, processed_log, appVars, pairVars>>

\* commit_global, the loop over the rows it read (cleanup_mode "Keep"): the
\* processed_log rows stay in the open transaction
RaceCommitFiles ==
    /\ last.pc = "read"
    /\ \E cs \in {GlobalStaged(CommitState(fs, makedirs(dirs, output_dir), ledger,
                                           processed_log),
                               last.rows, last.data, output_dir, last.operation, {})} :
          /\ fs' = cs.fs /\ dirs' = cs.dirs
          /\ last' = [last EXCEPT !.op = "commit_files", !.pc = "written",
                                  !.wrote = WroteSources(cs), !.log = cs.log]
    /\ RaceStep
    /\ UNCHANGED <<storeVars, appVars, pairVars>>

\* commit_global, its end: DELETE FROM staging_area, conn.commit()
RaceCommitEnd ==
    /\ last.pc = "written"
    /\ ledger' = clear_staging_area(ledger)
    /\ processed_log' = last.log
    /\ last' = [last EXCEPT !.op = "commit_end", !.pc = "done"]
    /\ RaceStep
    /\ UNCHANGED <<fs, dirs, folder_tags, appVars, pairVars>>

NextRace ==
    RaceTag \/ RaceTagLocked \/ RaceCommitRead \/ RaceCommitFiles \/ RaceCommitEnd
SpecRace == InitRace /\ [][NextRace]_vars

\* C23: once a commit_global has finished, every path that action_tag staged
\* while it ran is still in the ledger or was written to the output by it.
C23_RacedStageKept ==
    last.pc = "done" =>
        \A p \in last.raced : p \in DOMAIN ledger \/ p \in last.wrote

\* --------------------------------------------------- specification SpecSave
\* save_folder_tags over ledgers whose entries lie in the source folder, in
\* its subfolder and in a sibling folder src2, with category names with and
\* without a "_<digits>" part and names with and without a collision suffix.
SRC2 == <<"src2">>
SaveFiles == {SrcFile(1), SubFile(1), Path(SRC2, Name("img", 1, <<>>, JPG))}
SaveCategories == {"control", "set_2"}
SaveNames(p) ==
    {Name(cat, idx, sfx, splitext_ext(basename(p))) :
        cat \in SaveCategories, idx \in {1, MaxIdx}, sfx \in {<<>>, <<1>>}}
SaveLedgers ==
    UNION {{[p \in S |-> [cat |-> n[p].cat, name |-> n[p], marked |-> 1]] :
              n \in [S -> UNION {SaveNames(p) : p \in S}]} :
           S \in SUBSET SaveFiles}

InitSave ==
    /\ fs = OnDisk(SaveFiles)
    /\ dirs = {SRC, SUB, SRC2, OUT}
    /\ ledger \in SaveLedgers
    /\ folder_tags = EmptyFn
    /\ processed_log = EmptyFn
    /\ last = [op |-> "init", folder |-> <<>>, profile |-> "", count |-> 0,
               before |-> EmptyFn]
    /\ LedgerDefaults

\* save_folder_tags(folder_path, profile) on an empty folder_tags table
SaveTags ==
    /\ last.op = "init"
    /\ \E folder_path \in {SRC, SUB}, profile \in {"", "Other"}, rows \in RowOrders(ledger) :
          \E r \in {save_folder_tags(ledger, folder_tags, rows, folder_path, profile)} :
             /\ folder_tags' = r.tags
             /\ last' = [op |-> "save_folder_tags", folder |-> folder_path,
                         profile |-> ProfileOrDefault(profile), count |-> r.count,
                         before |-> ledger]
    /\ steps' = steps + 1
    /\ UNCHANGED <<fs, dirs, ledger, processed_log, appVars, pairVars>>

\* restore_folder_tags(folder_path, all_images, profile) after the save, with
\* the images of a scan of the folder
RestoreTags ==
    /\ last.op = "save_folder_tags"
    /\ \E folder_path \in {SRC, SUB}, profile \in {"", "Other"} :
          \E r \in {restore_folder_tags(ledger, folder_tags, folder_path,
                                        get_images(fs, dirs, folder_path, TRUE, {}),
                                        profile)} :
             /\ ledger' = r.ledger
             /\ last' = [op |-> "restore_folder_tags", folder |-> folder_path,
                         profile |-> ProfileOrDefault(profile), count |-> r.restored,
                         before |-> ledger]
    /\ steps' = steps + 1
    /\ UNCHANGED <<fs, dirs, folder_tags, processed_log, appVars, pairVars>>

NextSave == SaveTags \/ RestoreTags
SpecSave == InitSave /\ [][NextSave]_vars

\* the entries whose file is in the folder or in one of its subfolders
UnderFolder(folder_path) == {p \in DOMAIN ledger : IsPrefix(folder_path, p.dir)}

\* C28: save_folder_tags(folder, profile) leaves a record for every entry
\* under folder, with that entry's category, leaves no record whose filename
\* belongs to no entry under folder, and returns the number of entries under
\* folder.
C28_SavesExactlyFolderEntries ==
    last.op = "save_folder_tags" =>
        /\ \A p \in UnderFolder(last.folder) :
              /\ <<last.profile, last.folder, basename(p)>> \in DOMAIN folder_tags
              /\ folder_tags[<<last.profile, last.folder, basename(p)>>].cat = ledger[p].cat
        /\ \A k \in DOMAIN folder_tags :
              \E p \in UnderFolder(last.folder) :
                  k = <<last.profile, last.folder, basename(p)>>
        /\ last.count = Cardinality(UnderFolder(last.folder))
        /\ Cardinality(DOMAIN folder_tags) = last.count

\* the number of the trailing _NNN segment of a name, 0 when there is none
TrailingIndex(name) ==
    IF extract_index(NameChars(name)) = -1 THEN 0 ELSE extract_index(NameChars(name))

\* C29: the index save_folder_tags stores for an entry is the number of the
\* trailing _NNN segment of its computed name, for every category and name.
C29_StoredIndexIsTrailing ==
    last.op = "save_folder_tags" =>
        \A p \in DOMAIN ledger :
            \A k \in DOMAIN folder_tags :
                (k[3] = basename(p) /\ folder_tags[k].cat = ledger[p].cat
                 /\ Cardinality({q \in DOMAIN ledger : basename(q) = basename(p)}) = 1)
                    => folder_tags[k].index = TrailingIndex(ledger[p].name)

\* the files restore_folder_tags was given: the scan of its folder
CurrentFiles == Range(get_images(fs, dirs, last.folder, TRUE, {}))

\* C30: restore_folder_tags leaves every entry that existed as it was, and
\* every entry it creates is for a file of current_files whose basename has
\* a saved record for that folder and profile.
C30_RestoreKeepsEntries ==
    last.op = "restore_folder_tags" =>
        /\ \A p \in DOMAIN last.before :
              p \in DOMAIN ledger /\ ledger[p] = last.before[p]
        /\ \A p \in DOMAIN ledger \ DOMAIN last.before :
              /\ p \in CurrentFiles
              /\ <<last.profile, last.folder, basename(p)>> \in DOMAIN folder_tags

\* a restore over a file that has an entry and a saved record of another
\* category
C30_Witness ==
    /\ last.op = "restore_folder_tags"
    /\ \E p \in DOMAIN last.before \cap CurrentFiles :
          /\ <<last.profile, last.folder, basename(p)>> \in DOMAIN folder_tags
          /\ folder_tags[<<last.profile, last.folder, basename(p)>>].cat
                # last.before[p].cat

\* ------------------------------------------------ specification SpecProfile
\* Sessions of tagging, saving, clearing and restoring under two profiles
\* over one source folder, as change_profile and load_images drive them.
MaxProfileOps == 5
ProfileFiles == {SrcFile(1), SrcFile(2)}
ProfileArgs == {"", "Other"}

InitProfile ==
    /\ fs = OnDisk(ProfileFiles)
    /\ dirs = {SRC, OUT}
    /\ ledger = EmptyFn
    /\ folder_tags = EmptyFn
    /\ processed_log = EmptyFn
    /\ last = [op |-> "init", profile |-> "", before |-> EmptyFn, tags |-> EmptyFn]
    /\ LedgerDefaults

ProfileFrame ==
    /\ steps < MaxProfileOps
    /\ steps' = steps + 1
    /\ UNCHANGED <<fs, dirs, processed_log, appVars, pairVars>>

ProfileDid(op, profile) ==
    last' = [op |-> op, profile |-> ProfileOrDefault(profile), before |-> ledger,
             tags |-> folder_tags]

\* stage_image(path, category, name)
ProfileStage ==
    \E path \in ProfileFiles, cat \in Categories, idx \in {1, MaxIdx} :
        /\ ledger' = stage_image(ledger, path, cat,
                                 FormatName(cat, idx, splitext_ext(basename(path))))
        /\ UNCHANGED folder_tags
        /\ ProfileDid("stage_image", "")
        /\ ProfileFrame

\* save_folder_tags(source_dir, profile) followed by clear_staging_area(), as
\* in change_profile
ProfileSave ==
    /\ ledger # EmptyFn
    /\ \E profile \in ProfileArgs, rows \in RowOrders(ledger) :
          /\ folder_tags' = save_folder_tags(ledger, folder_tags, rows, SRC, profile).tags
          /\ ledger' = clear_staging_area(ledger)
          /\ ProfileDid("save_folder_tags", profile)
    /\ ProfileFrame

\* restore_folder_tags(source_dir, all_images, profile) on a fresh scan
ProfileRestore ==
    /\ folder_tags # EmptyFn
    /\ \E profile \in ProfileArgs :
          /\ ledger' = restore_folder_tags(ledger, folder_tags, SRC,
                                           get_images(fs, dirs, SRC, TRUE, {}),
                                           profile).ledger
          /\ UNCHANGED folder_tags
          /\ ProfileDid("restore_folder_tags", profile)
    /\ ProfileFrame

NextProfile == ProfileStage \/ ProfileSave \/ ProfileRestore
SpecProfile == InitProfile /\ [][NextProfile]_vars

\* the records of one profile
RecordsOf(T, profile) == Restrict(T, {k \in DOMAIN T : k[1] = profile})
OtherRecords(T, profile) == Restrict(T, {k \in DOMAIN T : k[1] # profile})

\* C31: a restore under profile B gives the ledger it gives when only B's
\* records exist, every entry it creates carries the category of B's record
\* for that file, and a save under B leaves the records of every other
\* profile as they were.
C31_ProfilesIsolated ==
    /\ last.op = "restore_folder_tags" =>
          /\ ledger = restore_folder_tags(last.before, RecordsOf(folder_tags, last.profile),
                                          SRC, get_images(fs, dirs, SRC, TRUE, {}),
                                          last.profile).ledger
          /\ \A p \in DOMAIN ledger \ DOMAIN last.before :
                /\ <<last.profile, SRC, basename(p)>> \in DOMAIN folder_tags
                /\ ledger[p].cat = folder_tags[<<last.profile, SRC, basename(p)>>].cat
    /\ last.op = "save_folder_tags" =>
          OtherRecords(folder_tags, last.profile) = OtherRecords(last.tags, last.profile)

\* a restore under one profile that creates an entry for a file for which the
\* other profile holds a record of another category
C31_Witness ==
    /\ last.op = "restore_folder_tags"
    /\ \E p \in DOMAIN ledger \ DOMAIN last.before :
          \E k \in DOMAIN folder_tags :
              /\ k[1] # last.profile /\ k[3] = basename(p)
              /\ folder_tags[k].cat # ledger[p].cat

\* ------------------------------------------------- specification SpecRename
\* Tagging, undo and rename_category over a loaded source folder.  The table
\* categories is kept in `last`.
MaxRenameOps == 3

\* SorterEngine.rename_category(old_name, new_name) on staging_area L and the
\* table categories: the UPDATE of categories raises IntegrityError when
\* new_name is already a row, and then nothing is committed
rename_category(L, cats, old_name, new_name) ==
    IF old_name \in cats /\ new_name \in cats /\ new_name # old_name
    THEN [ledger |-> L, categories |-> cats]
    ELSE [ledger |-> [p \in DOMAIN L |->
                        IF L[p].cat = old_name THEN [L[p] EXCEPT !.cat = new_name]
                        ELSE L[p]],
          categories |-> IF old_name \in cats THEN (cats \ {old_name}) \cup {new_name}
                         ELSE cats]

InitRename ==
    /\ fs = OnDisk(SourceFiles)
    /\ dirs = {SRC, SUB, OUT}
    /\ ledger = EmptyFn
    /\ folder_tags = EmptyFn /\ processed_log = EmptyFn
    /\ undo_stack = <<>> /\ staged_data = EmptyFn
    /\ all_images = get_images(fs, dirs, SRC, TRUE, {})
    /\ active_cat \in Categories /\ next_index = 1
    /\ profile_name = "Default" /\ output_dir = OUT
    /\ profile_categories = [p \in Profiles |-> SeedCategories]
    /\ pair_adjacent_data = <<>> /\ pair_time_window = DefaultWindow
    /\ pair_current_idx = 1 /\ pair_matches = <<>> /\ pair_selected_match = NoPath
    /\ pair_index = 1
    /\ pair_main_category = "control" /\ pair_adj_category = "control"
    /\ \E cats \in {{"control"}, Categories} :
          last = [op |-> "init", categories |-> cats]
    /\ steps = 0

RenameStep ==
    /\ steps < MaxRenameOps
    /\ steps' = steps + 1

RenameTag ==
    /\ \E img_path \in Range(all_images), manual_idx \in {0, MaxIdx} :
          action_tag(img_path, manual_idx)
    /\ last' = [last EXCEPT !.op = "action_tag"]
    /\ RenameStep

RenameUndo ==
    /\ action_undo
    /\ last' = [last EXCEPT !.op = "action_undo"]
    /\ RenameStep

\* action_rename_category(old_name, new_name): if new_name and new_name != old_name
RenameCategory ==
    /\ \E old_name \in Categories : \E new_name \in Categories \ {old_name} :
          \E r \in {rename_category(ledger, last.categories, old_name, new_name)} :
             /\ ledger' = r.ledger
             /\ last' = [op |-> "rename_category", categories |-> r.categories]
    /\ RenameStep
    /\ UNCHANGED <<fs, dirs, folder_tags, processed_log, appVars, pairVars>>

NextRename == RenameTag \/ RenameUndo \/ RenameCategory
SpecRename == InitRename /\ [][NextRename]_vars

\* the name s is <category>_<three or more digits>...<ext>
FollowsGrammar(s, category, ext) ==
    LET c == WordChars(category) \o <<"_">>
        e == WordChars(ext)
    IN /\ IsPrefix(c, s)
       /\ Len(s) >= Len(c) + 3 + Len(e)
       /\ \A i \in (Len(c) + 1)..(Len(c) + 3) : IsDigit(s[i])
       /\ SubSeq(s, Len(s) - Len(e) + 1, Len(s)) = e

\* C32: every entry's name starts with the entry's own category, '_' and an
\* index of at least three digits, and ends with the extension of its path.
C32_NamesFollowGrammar ==
    \A p \in DOMAIN ledger :
        FollowsGrammar(NameChars(ledger[p].name), ledger[p].cat,
                       splitext_ext(basename(p)))

\* --------------------------------------------------- specification SpecScan
\* One get_images call over a folder tree adj, adj/sub, adj/sub/sub and
\* adj/_DELETED, for every set of files in it, with at most one directory that
\* cannot be listed (PermissionError), the tree present or missing, and an
\* excluded path at every depth.
SUBADJ == <<"adj", "sub">>
DEEPADJ == <<"adj", "sub", "sub">>
TRASHADJ == <<"adj", "_DELETED">>
ScanDirs == {ADJ, SUBADJ, DEEPADJ, TRASHADJ}
ScanFiles == {Path(d, Name("pic", 1, <<>>, JPG)) : d \in ScanDirs}

\* os.walk(path) with onerror=None: a directory whose listing fails is left
\* out with its subtree
Listable(U, path, d) ==
    \A k \in Len(path)..Len(d) : SubSeq(d, 1, k) \notin U

\* SorterEngine.get_images(path, recursive, exclude_paths) when the
\* directories of U cannot be listed: the list returned, or raised when
\* os.listdir(path) raises
get_images_io(F, D, U, path, recursive, exclude_paths) ==
    IF path = <<>> \/ ~isdir(D, path) THEN [raised |-> FALSE, images |-> <<>>]
    ELSE IF recursive
    THEN [raised |-> FALSE,
          images |-> sorted({p \in DOMAIN F : /\ Walked(path, p.dir, exclude_paths)
                                              /\ Listable(U, path, p.dir)})]
    ELSE IF path \in U THEN [raised |-> TRUE, images |-> <<>>]
    ELSE [raised |-> FALSE, images |-> sorted({p \in DOMAIN F : p.dir = path})]

InitScan ==
    /\ \E present \in SUBSET ScanFiles : fs = OnDisk(present)
    /\ dirs \in {ScanDirs, {}}
    /\ \E U \in {{}} \cup {{d} : d \in ScanDirs} :
          last = [op |-> "init", unreadable |-> U, path |-> <<>>, recursive |-> FALSE,
                  exclude_paths |-> {}, raised |-> FALSE, images |-> <<>>]
    /\ ledger = EmptyFn /\ folder_tags = EmptyFn /\ processed_log = EmptyFn
    /\ LedgerDefaults

GetImages ==
    /\ last.op = "init"
    /\ \E path \in {ADJ, SUBADJ}, recursive \in BOOLEAN,
          exclude_paths \in {{}, {ADJ}, {SUBADJ}, {DEEPADJ}} :
          \E r \in {get_images_io(fs, dirs, last.unreadable, path, recursive,
                                  exclude_paths)} :
             last' = [op |-> "get_images", unreadable |-> last.unreadable,
                      path |-> path, recursive |-> recursive,
                      exclude_paths |-> exclude_paths, raised |-> r.raised,
                      images |-> r.images]
    /\ steps' = steps + 1
    /\ UNCHANGED <<fs, dirs, storeVars, appVars, pairVars>>

NextScan == GetImages
SpecScan == InitScan /\ [][NextScan]_vars

\* C33: a recursive get_images returns no file under a path of exclude_paths
\* and no file under a _DELETED folder.
C33_ExcludedNotListed ==
    (last.op = "get_images" /\ last.recursive /\ ~last.raised) =>
        \A i \in 1..Len(last.images) :
            /\ ~InTrash(last.images[i].dir)
            /\ \A e \in last.exclude_paths : ~IsPrefix(e, last.images[i].dir)

\* C34: get_images raises nothing, returns the empty list for a missing
\* root, and returns no file of a directory that cannot be listed.
C34_ScanNeverRaises ==
    last.op = "get_images" =>
        /\ ~last.raised
        /\ ~isdir(dirs, last.path) => last.images = <<>>
        /\ \A i \in 1..Len(last.images) : last.images[i].dir \notin last.unreadable

\* ------------------------------------------------- specification SpecSchema
\* save_folder_tags and restore_folder_tags on a database whose folder_tags
\* table has the shape init_db creates, (folder_path, filename, category,
\* tag_index) without the profile column, or the shape with it.  An old
\* table is keyed by <<folder, filename>>; `last.schema` is its shape.
OldTags ==
    {EmptyFn, <<SRC, basename(SrcFile(1))>> :> [cat |-> "control", index |-> 1]}
NewTags ==
    {EmptyFn, <<"Default", SRC, basename(SrcFile(1))>> :> [cat |-> "control", index |-> 1]}

\* PRAGMA table_info(folder_tags); if 'profile' not in columns: DROP TABLE
\* folder_tags, CREATE TABLE with the profile column
migrate_folder_tags(T, schema) == IF schema = "old" THEN EmptyFn ELSE T

\* save_folder_tags from its first line: it returns before it opens the
\* database when nothing is staged
save_folder_tags_db(L, T, schema, rows, folder_path, profile) ==
    IF DOMAIN get_staged_data(L) = {}
    THEN [tags |-> T, schema |-> schema, count |-> 0, raised |-> FALSE]
    ELSE save_folder_tags(L, migrate_folder_tags(T, schema), rows, folder_path, profile)
            @@ [schema |-> "new", raised |-> FALSE]

\* restore_folder_tags from its first line
restore_folder_tags_db(L, T, schema, folder_path, images, profile) ==
    restore_folder_tags(L, migrate_folder_tags(T, schema), folder_path, images, profile)
        @@ [tags |-> migrate_folder_tags(T, schema), schema |-> "new", raised |-> FALSE]

InitSchema ==
    /\ fs = OnDisk(SourceFiles)
    /\ dirs = {SRC, SUB, OUT}
    /\ \E choice \in StagedLedgers : ledger = LedgerOf(choice)
    /\ \E schema \in {"old", "new"} :
          /\ folder_tags \in (IF schema = "old" THEN OldTags ELSE NewTags)
          /\ last = [op |-> "init", schema |-> schema, schema_before |-> schema,
                     tags_before |-> folder_tags, before |-> ledger, raised |-> FALSE]
    /\ processed_log = EmptyFn
    /\ LedgerDefaults

SchemaDid(op, r) ==
    last' = [op |-> op, schema |-> r.schema, schema_before |-> last.schema,
             tags_before |-> folder_tags, before |-> ledger, raised |-> r.raised]

SchemaSave ==
    /\ last.op = "init"
    /\ \E profile \in {"", "Other"}, rows \in RowOrders(ledger) :
          \E r \in {save_folder_tags_db(ledger, folder_tags, last.schema, rows, SRC,
                                        profile)} :
             /\ folder_tags' = r.tags
             /\ SchemaDid("save_folder_tags", r)
    /\ steps' = steps + 1
    /\ UNCHANGED <<fs, dirs, ledger, processed_log, appVars, pairVars>>

SchemaRestore ==
    /\ last.op = "init"
    /\ \E profile \in {"", "Other"} :
          \E r \in {restore_folder_tags_db(ledger, folder_tags, last.schema, SRC,
                                           get_images(fs, dirs, SRC, TRUE, {}), profile)} :
             /\ folder_tags' = r.tags
             /\ ledger' = r.ledger
             /\ SchemaDid("restore_folder_tags", r)
    /\ steps' = steps + 1
    /\ UNCHANGED <<fs, dirs, processed_log, appVars, pairVars>>

NextSchema == SchemaSave \/ SchemaRestore
SpecSchema == InitSchema /\ [][NextSchema]_vars

\* C35: on a folder_tags table without the profile column, save_folder_tags
\* and restore_folder_tags raise and leave the table and its records as
\* they were.
C35_OldSchemaFailsFast ==
    (last.op \in {"save_folder_tags", "restore_folder_tags"}
     /\ last.schema_before = "old") =>
        /\ last.raised
        /\ last.schema = "old"
        /\ folder_tags = last.tags_before

\* -------------------------------------------------- specification SpecMaxId
\* get_max_id_number over every folder of at most two files named "id" plus
\* a tail of digits, '_' and letters, or the folder missing.
MaxTail == 3
TailChars == {"0", "1", "_", "x"}
IdTails == UNION {[1..n -> TailChars] : n \in 1..MaxTail}
MaxIdNames ==
    {[stem |-> <<"i", "d">> \o t, ext |-> ".jpg"] : t \in IdTails}
        \cup {[stem |-> <<"d", "i", "1", "_">>, ext |-> ".jpg"]}
MaxIdFolders == {{}} \cup {{a, b} : a, b \in MaxIdNames}

\* f[2:].split('_')[0]: the text between "id" and the first '_'
IdNumberText(f) ==
    LET k == CHOOSE i \in 3..Len(f.stem) :
                 f.stem[i] = "_" /\ \A j \in 3..(i - 1) : f.stem[j] # "_"
    IN SubSeq(f.stem, 3, k - 1)

\* a parse that rejects a number written with a leading zero
id_number_strict(f) ==
    LET text == IdNumberText(f)
    IN IF text = <<>> \/ (\E i \in 1..Len(text) : ~IsDigit(text[i]))
          \/ (Len(text) > 1 /\ text[1] = "0")
       THEN -1
       ELSE DigitRun(text, 1, 0)

\* int(f[2:].split('_')[0]); -1 where it raises (except: continue)
id_number(f) ==
    LET text == IdNumberText(f)
    IN IF text = <<>> \/ (\E i \in 1..Len(text) : ~IsDigit(text[i])) THEN -1
       ELSE DigitRun(text, 1, 0)

\* SorterEngine.get_max_id_number(target_path)
get_max_id_number(F, D, target_path) ==
    IF ~isdir(D, target_path) THEN 0
    ELSE LET nums == {id_number(q.name) :
                        q \in {x \in DOMAIN F : /\ x.dir = target_path
                                                /\ StartsWithId(x.name)
                                                /\ HasUnderscore(x.name)}} \cup {0}
         IN CHOOSE m \in nums : \A n \in nums : n <= m

InitMaxId ==
    /\ \E folder \in MaxIdFolders : fs = OnDisk({Path(SRC, f) : f \in folder})
    /\ dirs \in {{SRC}} \cup (IF fs = EmptyFn THEN {{}} ELSE {})
    /\ ledger = EmptyFn /\ folder_tags = EmptyFn /\ processed_log = EmptyFn
    /\ last = [op |-> "init", max_id |-> 0]
    /\ LedgerDefaults

\* auto_id = SorterEngine.get_max_id_number(path_t) + 1
GetMaxIdNumber ==
    /\ last.op = "init"
    /\ last' = [op |-> "get_max_id_number", max_id |-> get_max_id_number(fs, dirs, SRC)]
    /\ UNCHANGED <<fs, dirs, storeVars, appVars, pairVars, steps>>

NextMaxId == GetMaxIdNumber
SpecMaxId == InitMaxId /\ [][NextMaxId]_vars

\* the name is "id", a non-empty run of digits and '_', then anything
IdShaped(f) ==
    /\ Len(f.stem) >= 4 /\ f.stem[1] = "i" /\ f.stem[2] = "d"
    /\ \E k \in 4..Len(f.stem) :
          f.stem[k] = "_" /\ \A j \in 3..(k - 1) : IsDigit(f.stem[j])
\* the name carries the ID number n, under any padding
CarriesId(f, n) == IdShaped(f) /\ DigitRun(f.stem, 3, 0) = n

\* C36: no file of the directory carries the ID get_max_id_number(dir) + 1
\* under any padding; the result is 0 for a missing directory and for one
\* where no name carries an ID above 0, and otherwise it is an ID that a file
\* of the directory carries.
C36_MaxIdIsFresh ==
    last.op = "get_max_id_number" =>
        /\ \A q \in DOMAIN fs : ~CarriesId(q.name, last.max_id + 1)
        /\ (~isdir(dirs, SRC) \/ \A q \in DOMAIN fs : ~IdShaped(q.name) \/ CarriesId(q.name, 0))
               => last.max_id = 0
        /\ last.max_id # 0 =>
               (last.max_id > 0 /\ \E q \in DOMAIN fs : CarriesId(q.name, last.max_id))

\* a folder with an ID written with padding beside a name whose number does
\* not parse
C36_Witness ==
    /\ last.op = "get_max_id_number"
    /\ last.max_id > 0
    /\ \E q \in DOMAIN fs : CarriesId(q.name, last.max_id) /\ q.name.stem[3] = "0"
    /\ \E q \in DOMAIN fs :
          StartsWithId(q.name) /\ HasUnderscore(q.name) /\ id_number(q.name) = -1

\* ----------------------------------------------- specification SpecPair
\* The pairing tab with the adjacent folder loaded: each side's Output
\* field, pair tagging, and APPLY GLOBAL of the pairing footer.
\* state.pair_main_output and state.pair_adj_output are carried in `last`,
\* with the files tagged on each side.
MaxPairOps == 4
PairOutputs == {OUT, join(OUT, "sub"), join(OUT, "adj")}

InitPair ==
    /\ fs = OnDisk(MatchSources \cup AdjFiles)
    /\ dirs = {SRC, ADJ, OUT}
    /\ all_images = get_images(fs, dirs, SRC, TRUE, {})
    /\ pair_adjacent_data = AdjacentData(fs, dirs, ADJ, SRC)
    /\ pair_time_window = 1
    /\ pair_current_idx = 1
    /\ pair_matches = find_time_matches(fs, pair_adjacent_data, pair_time_window,
                                        all_images[1])
    /\ pair_selected_match = pair_matches[1]
    /\ MatchDefaults
    /\ last = [op |-> "init", pair_main_output |-> OUT, pair_adj_output |-> OUT,
               main |-> {}, adj |-> {}, wrote |-> <<>>]
    /\ steps = 0

PairStep ==
    /\ steps < MaxPairOps
    /\ steps' = steps + 1

\* the Output field of the main side: setattr(state, 'pair_main_output', e.value)
SetPairMainOutput ==
    \E value \in PairOutputs \ {last.pair_main_output} :
        /\ last' = [last EXCEPT !.op = "set_pair_main_output",
                                !.pair_main_output = value]
        /\ PairStep
        /\ UNCHANGED <<diskVars, storeVars, appVars, pairVars>>

\* the Output field of the adjacent side: setattr(state, 'pair_adj_output', e.value)
SetPairAdjOutput ==
    \E value \in PairOutputs \ {last.pair_adj_output} :
        /\ last' = [last EXCEPT !.op = "set_pair_adj_output",
                                !.pair_adj_output = value]
        /\ PairStep
        /\ UNCHANGED <<diskVars, storeVars, appVars, pairVars>>

\* the category selector of the adjacent side:
\* setattr(state, 'pair_adj_category', e.value)
SetPairAdjCategory ==
    \E value \in Categories \ {pair_adj_category} :
        /\ pair_adj_category' = value
        /\ last' = [last EXCEPT !.op = "set_pair_adj_category"]
        /\ PairStep
        /\ UNCHANGED <<diskVars, storeVars, appVars, pair_adjacent_data,
                       pair_time_window, pair_current_idx, pair_matches,
                       pair_selected_match, pair_index, pair_main_category>>

\* arrow buttons of the pairing view: pair_navigate(-1), pair_navigate(1)
PairMove ==
    \E direction \in {-1, 1} :
        /\ NavigateTo(direction) # pair_current_idx
        /\ UNCHANGED <<pair_adjacent_data, pair_time_window>>
        /\ pair_navigate(direction)
        /\ last' = [last EXCEPT !.op = "pair_navigate"]
        /\ PairStep
        /\ UNCHANGED <<diskVars, storeVars, appVars, pair_index,
                       pair_main_category, pair_adj_category>>

\* pair_tag_both(); a position past the end of all_images (the list shrank
\* at the last reload) raises IndexError before anything is staged
PairTag ==
    /\ all_images # <<>>
    /\ pair_current_idx <= Len(all_images)
    /\ pair_index <= MaxIdx
    /\ LET current_img == all_images[pair_current_idx]
           name_main == FormatName(pair_main_category, pair_index,
                                   splitext_ext(basename(current_img)))
           L1 == stage_image(ledger, current_img, pair_main_category, name_main)
       IN /\ ledger' = IF pair_selected_match # NoPath
                       THEN stage_image(L1, pair_selected_match, pair_adj_category,
                                        FormatName(pair_adj_category, pair_index,
                                            splitext_ext(basename(pair_selected_match))))
                       ELSE L1
          /\ last' = [last EXCEPT
                        !.op = "pair_tag_both",
                        !.main = @ \cup {current_img},
                        !.adj = IF pair_selected_match # NoPath
                                THEN @ \cup {pair_selected_match} ELSE @]
    /\ pair_index' = pair_index + 1
    /\ staged_data' = get_staged_data(ledger')
    /\ PairStep
    /\ UNCHANGED <<diskVars, folder_tags, processed_log, undo_stack, all_images,
                   active_cat, next_index, profile_name, output_dir, profile_categories,
                   pair_adjacent_data, pair_time_window, pair_current_idx, pair_matches,
                   pair_selected_match, pair_main_category, pair_adj_category>>

\* APPLY GLOBAL of the pairing footer: action_apply_global(), that is
\* commit_global(state.output_dir, ...), then load_images()
PairApplyGlobal ==
    /\ ledger # EmptyFn
    /\ \E cleanup_mode \in CleanupModes, operation \in Operations,
          rows \in RowOrders(ledger) :
        \E r \in {commit_global(fs, dirs, ledger, folder_tags, processed_log, rows,
                               output_dir, cleanup_mode, operation, SRC, profile_name, {})} :
          \E li \in {load_images(r.fs, r.dirs, r.ledger, r.tags, <<>>)} :
           /\ fs' = r.fs /\ dirs' = r.dirs /\ processed_log' = r.log
           /\ ledger' = li.ledger /\ folder_tags' = li.tags
           /\ all_images' = li.all_images
           /\ staged_data' = IF li.loaded THEN get_staged_data(li.ledger) ELSE staged_data
           /\ last' = [last EXCEPT !.op = "action_apply_global", !.wrote = r.wrote]
           /\ PairStep
           /\ UNCHANGED <<undo_stack, active_cat, next_index, profile_name, output_dir,
                          profile_categories, pairVars>>

NextPair ==
    \/ SetPairMainOutput \/ SetPairAdjOutput \/ SetPairAdjCategory
    \/ PairMove \/ PairTag \/ PairApplyGlobal
SpecPair == InitPair /\ [][NextPair]_vars

\* C37: after APPLY GLOBAL in pairing mode, every file tagged on the main side
\* is written under pair_main_output and every file tagged on the adjacent
\* side is written under pair_adj_output.
C37_PairFilesInOwnOutput ==
    last.op = "action_apply_global" =>
        \A i \in 1..Len(last.wrote) :
            /\ last.wrote[i][1] \in last.main
                  => IsPrefix(last.pair_main_output, last.wrote[i][2].dir)
            /\ last.wrote[i][1] \in last.adj
                  => IsPrefix(last.pair_adj_output, last.wrote[i][2].dir)

\* ------------------------------------------------ specification SpecRun
\* commit_global and commit_batch statement by statement: one action per
\* loop iteration, per test of the suffix search's while and per copy/move.
\* `last` holds the running call: its position (pc), the entries still to
\* visit (todo), the data read at the start, the entry in hand, final_dst and
\* c of the suffix search, and how often each entry of the first loop (seen)
\* and each image of the cleanup scan (swept) was visited.
RunLedgers == {choice \in CommitLedgers : SubFile(1) \notin DOMAIN choice}

InitRun ==
    /\ output_dir \in {OUT, SRC}
    /\ \E present \in {SourceFiles, SourceFiles \ {SrcFile(2)}}, pre \in PreOutSets :
          fs = OnDisk(present \cup {Path(output_dir, n) : n \in pre})
    /\ dirs = {SRC, SUB, OUT}
    /\ \E choice \in RunLedgers : ledger = LedgerOf(choice)
    /\ folder_tags = EmptyFn
    /\ processed_log = EmptyFn
    /\ last = [pc |-> "init", call |-> "", cleanup_mode |-> "Keep", operation |-> "Copy",
               todo |-> <<>>, data |-> EmptyFn, entries |-> {}, scope |-> {},
               old_p |-> NoPath, final_dst |-> NoPath, c |-> 0,
               seen |-> EmptyFn, swept |-> EmptyFn]
    /\ undo_stack = <<>> /\ staged_data = get_staged_data(ledger)
    /\ all_images = get_images(fs @@ OnDisk(SourceFiles), dirs, SRC, TRUE, {})
    /\ active_cat = "control" /\ next_index = 1 /\ profile_name = "Default"
    /\ profile_categories = [p \in Profiles |-> SeedCategories]
    /\ pair_adjacent_data = <<>> /\ pair_time_window = 1 /\ pair_current_idx = 1
    /\ pair_matches = <<>> /\ pair_selected_match = NoPath /\ pair_index = 1
    /\ pair_main_category = "control" /\ pair_adj_category = "control"
    /\ steps = 0

RunFrame == UNCHANGED <<appVars, pairVars, steps>>

\* one more visit of p
Visit(b, p) ==
    [q \in DOMAIN b \cup {p} |-> IF q = p THEN (IF p \in DOMAIN b THEN b[p] + 1 ELSE 1)
                                 ELSE b[q]]

\* a suffix search that never advances c
SuffixStepStuck(c) == c
\* c += 1
SuffixStep(c) == c + 1

\* commit_global up to its first loop: get_staged_data, save_folder_tags,
\* os.makedirs(output_root)
StartGlobal ==
    /\ last.pc = "init"
    /\ \E cleanup_mode \in CleanupModes, operation \in Operations,
          rows \in RowOrders(ledger) :
          /\ last' = [last EXCEPT !.pc = "for", !.call = "commit_global",
                                  !.cleanup_mode = cleanup_mode, !.operation = operation,
                                  !.todo = rows, !.data = get_staged_data(ledger),
                                  !.entries = DOMAIN ledger]
          /\ folder_tags' = save_folder_tags(ledger, folder_tags, rows, SRC,
                                             profile_name).tags
    /\ dirs' = IF isdir(dirs, output_dir) THEN dirs ELSE makedirs(dirs, output_dir)
    /\ UNCHANGED <<fs, ledger, processed_log>>
    /\ RunFrame

\* commit_batch up to its loop: get_staged_data, os.makedirs(output_root)
StartBatch ==
    /\ last.pc = "init"
    /\ \E cleanup_mode \in CleanupModes, operation \in Operations,
          file_list \in Pages(all_images) :
          last' = [last EXCEPT !.pc = "for", !.call = "commit_batch",
                               !.cleanup_mode = cleanup_mode, !.operation = operation,
                               !.todo = file_list, !.data = get_staged_data(ledger),
                               !.entries = Range(file_list)]
    /\ dirs' = IF isdir(dirs, output_dir) THEN dirs ELSE makedirs(dirs, output_dir)
    /\ UNCHANGED <<fs, ledger, folder_tags, processed_log>>
    /\ RunFrame

\* final_dst = os.path.join(output_root, info['name']);
\* if os.path.exists(final_dst): c = 1, enter the while
EnterSearch(old_p) ==
    LET final_dst == Path(output_dir, last.data[old_p].name)
    IN [last EXCEPT !.pc = IF exists(fs, final_dst) THEN "while" ELSE "write",
                    !.todo = Tail(@), !.old_p = old_p, !.final_dst = final_dst,
                    !.c = 1, !.seen = Visit(@, old_p)]

\* the next iteration of "for old_p, info in data.items()" (commit_global) or
\* "for file_path in file_list" (commit_batch), up to the suffix search
ForNext ==
    /\ last.pc = "for" /\ last.todo # <<>>
    /\ LET old_p == Head(last.todo)
           skip == [last EXCEPT !.todo = Tail(@), !.seen = Visit(@, old_p)]
       IN IF ~exists(fs, old_p)
          THEN last' = skip /\ UNCHANGED <<fs, dirs>>
          ELSE IF last.call = "commit_global"
                  \/ (old_p \in DOMAIN last.data /\ last.data[old_p].marked = 1)
          THEN last' = EnterSearch(old_p) /\ UNCHANGED <<fs, dirs>>
          ELSE \E cs \in {CleanupFile(CommitState(fs, dirs, ledger, processed_log), old_p,
                                      join(dirname(old_p), "unused"),
                                      last.cleanup_mode, {})} :
                  /\ fs' = cs.fs /\ dirs' = cs.dirs
                  /\ last' = skip
    /\ UNCHANGED <<ledger, folder_tags, processed_log>>
    /\ RunFrame

\* one test of "while os.path.exists(final_dst)" and, when it holds, the body
\* final_dst = os.path.join(output_root, f"{root}_{c}{ext}"); c += 1
WhileStep ==
    /\ last.pc = "while"
    /\ last' = IF exists(fs, last.final_dst)
               THEN [last EXCEPT
                       !.final_dst = Path(output_dir,
                                          WithSuffix(last.data[last.old_p].name, last.c)),
                       !.c = SuffixStep(@)]
               ELSE [last EXCEPT !.pc = "write"]
    /\ UNCHANGED <<fs, dirs, ledger, folder_tags, processed_log>>
    /\ RunFrame

\* shutil.copy2 / shutil.move to final_dst, the processed_log record and, in
\* commit_batch, the DELETE of the entry
Write ==
    /\ last.pc = "write"
    /\ fs' = IF last.operation = "Copy" THEN copy2(fs, last.old_p, last.final_dst)
             ELSE move(fs, last.old_p, last.final_dst)
    /\ processed_log' =
          [q \in DOMAIN processed_log \cup {last.old_p} |->
              IF q = last.old_p
              THEN [cat |-> last.data[last.old_p].cat, action |-> last.operation]
              ELSE processed_log[q]]
    /\ ledger' = IF last.call = "commit_batch"
                 THEN clear_staged_item(ledger, last.old_p) ELSE ledger
    /\ last' = [last EXCEPT !.pc = "for"]
    /\ UNCHANGED <<dirs, folder_tags>>
    /\ RunFrame

\* the first loop is exhausted: commit_batch commits and returns;
\* commit_global scans source_root when cleanup_mode != "Keep"
ForEnd ==
    /\ last.pc = "for" /\ last.todo = <<>>
    /\ IF last.call = "commit_global" /\ last.cleanup_mode # "Keep"
       THEN \E all_imgs \in {get_images(fs, dirs, SRC, TRUE, {})} :
               last' = [last EXCEPT !.pc = "sweep", !.todo = all_imgs,
                                    !.scope = Range(all_imgs)]
       ELSE last' = [last EXCEPT !.pc = IF last.call = "commit_global"
                                        THEN "clear" ELSE "done"]
    /\ UNCHANGED <<fs, dirs, ledger, folder_tags, processed_log>>
    /\ RunFrame

\* the next iteration of "for img_p in all_imgs"
SweepNext ==
    /\ last.pc = "sweep" /\ last.todo # <<>>
    /\ LET img_p == Head(last.todo)
       IN /\ last' = [last EXCEPT !.todo = Tail(@), !.swept = Visit(@, img_p)]
          /\ IF img_p \notin DOMAIN last.data
             THEN \E cs \in {CleanupFile(CommitState(fs, dirs, ledger, processed_log), img_p,
                                         join(SRC, "unused"), last.cleanup_mode, {})} :
                     fs' = cs.fs /\ dirs' = cs.dirs
             ELSE UNCHANGED <<fs, dirs>>
    /\ UNCHANGED <<ledger, folder_tags, processed_log>>
    /\ RunFrame

\* DELETE FROM staging_area; conn.commit()
Clear ==
    /\ \/ last.pc = "clear"
       \/ last.pc = "sweep" /\ last.todo = <<>>
    /\ ledger' = clear_staging_area(ledger)
    /\ last' = [last EXCEPT !.pc = "done"]
    /\ UNCHANGED <<fs, dirs, folder_tags, processed_log>>
    /\ RunFrame

NextRun ==
    \/ StartGlobal \/ StartBatch \/ ForNext \/ WhileStep \/ Write
    \/ ForEnd \/ SweepNext \/ Clear
SpecRun == InitRun /\ [][NextRun]_vars
\* a running call always executes its next statement
SpecRunFair == SpecRun /\ WF_vars(NextRun)

Visits(b, p) == IF p \in DOMAIN b THEN b[p] ELSE 0

\* the call has returned, having visited every entry of its first loop and
\* every image of its cleanup scan exactly once
RanToCompletion ==
    /\ last.pc = "done"
    /\ \A p \in last.entries : Visits(last.seen, p) = 1
    /\ \A p \in last.scope : Visits(last.swept, p) = 1
    /\ DOMAIN last.seen = last.entries /\ DOMAIN last.swept = last.scope

====
